---- MODULE Spec2Model ----
(***************************************************************************)
(* Training Plan Importer: the validator, the direct JSON import adapter,  *)
(* the preview page and the sequential upload orchestrator.                *)
(*                                                                         *)
(* JavaScript values are modelled as strings.  `undefined` (a missing      *)
(* field) is the token Undefined; optional numbers are sequences: <<>> for *)
(* undefined and <<n>> for the number n.  Calendar dates are the strings   *)
(* three days in a row; new Date(s).getTime() is modelled by ParseDay (a day      *)
(* number, or NaN) and toISOString().split("T")[0] by DayStr.              *)
(***************************************************************************)
EXTENDS Integers, Sequences, FiniteSets, TLC

\* ---------------------------------------------------------------- bounds
\* longest workout list an import produces or the editor grows
MaxWorkouts == 2

\* ------------------------------------------------------- string helpers
StartsWith(s, prefix) ==
    /\ Len(s) >= Len(prefix)
    /\ SubSeq(s, 1, Len(prefix)) = prefix
Contains(s, part) ==
    \E i \in 1..(Len(s) - Len(part) + 1) : SubSeq(s, i, i + Len(part) - 1) = part

EndsWith(s, suffix) ==
    /\ Len(s) >= Len(suffix)
    /\ SubSeq(s, Len(s) - Len(suffix) + 1, Len(s)) = suffix

\* ------------------------------------------------------ JavaScript values
\* a TypeError thrown while a value is computed
TypeErrorThrown == "<TypeError>"
\* the function-valued members every object inherits from Object.prototype
InheritedMethods ==
    {"constructor", "toString", "toLocaleString", "valueOf", "hasOwnProperty",
     "isPrototypeOf", "propertyIsEnumerable"}
\* a function object: truthy, not a string, left out by JSON.stringify
InheritedFunction == "<function>"

\* the i-th character of s, as a string
CharAt(s, i) == SubSeq(s, i, i)
\* s from its i-th character on
From(s, i) == SubSeq(s, i, Len(s))
UpperLetters == "ABCDEFGHIJKLMNOPQRSTUVWXYZ"
LowerLetters == "abcdefghijklmnopqrstuvwxyz"
Digits == {"0", "1", "2", "3", "4", "5", "6", "7", "8", "9"}
IsDigit(c) == c \in Digits
\* \s
IsSpace(c) == c \in {" ", "\t", "\n"}
\* \w
IsWordChar(c) ==
    \/ IsDigit(c) \/ c = "_"
    \/ \E k \in 1..Len(UpperLetters) :
          c = CharAt(UpperLetters, k) \/ c = CharAt(LowerLetters, k)
\* the lower-case (upper-case) form of every letter that has another case
LowerOf ==
    [c \in {CharAt(UpperLetters, k) : k \in 1..Len(UpperLetters)} |->
        CharAt(LowerLetters,
               CHOOSE k \in 1..Len(UpperLetters) : CharAt(UpperLetters, k) = c)]
UpperOf ==
    [c \in {CharAt(LowerLetters, k) : k \in 1..Len(LowerLetters)} |->
        CharAt(UpperLetters,
               CHOOSE k \in 1..Len(LowerLetters) : CharAt(LowerLetters, k) = c)]
LowerChar(c) == IF c \in DOMAIN LowerOf THEN LowerOf[c] ELSE c
UpperChar(c) == IF c \in DOMAIN UpperOf THEN UpperOf[c] ELSE c
\* String.prototype.toLowerCase / toUpperCase
RECURSIVE ToLowerCase(_)
ToLowerCase(s) ==
    IF s = "" THEN "" ELSE LowerChar(CharAt(s, 1)) \o ToLowerCase(From(s, 2))
RECURSIVE ToUpperCase(_)
ToUpperCase(s) ==
    IF s = "" THEN "" ELSE UpperChar(CharAt(s, 1)) \o ToUpperCase(From(s, 2))
\* String.prototype.trim
RECURSIVE TrimStart(_)
TrimStart(s) ==
    IF s # "" /\ IsSpace(CharAt(s, 1)) THEN TrimStart(From(s, 2)) ELSE s
RECURSIVE TrimEnd(_)
TrimEnd(s) ==
    IF s # "" /\ IsSpace(CharAt(s, Len(s))) THEN TrimEnd(SubSeq(s, 1, Len(s) - 1))
    ELSE s
Trim(s) == TrimEnd(TrimStart(s))
\* s.split('\n')
RECURSIVE SplitLines(_)
SplitLines(s) ==
    IF \E i \in 1..Len(s) : CharAt(s, i) = "\n"
    THEN LET i == CHOOSE i \in 1..Len(s) :
                     /\ CharAt(s, i) = "\n"
                     /\ \A j \in 1..(i - 1) : CharAt(s, j) # "\n"
         IN <<SubSeq(s, 1, i - 1)>> \o SplitLines(From(s, i + 1))
    ELSE <<s>>
\* index of the last character of the run of digits (of spaces) that starts
\* at i; i - 1 when there is none
RECURSIVE DigitRunEnd(_, _)
DigitRunEnd(s, i) ==
    IF i <= Len(s) /\ IsDigit(CharAt(s, i)) THEN DigitRunEnd(s, i + 1) ELSE i - 1
RECURSIVE SpaceRunEnd(_, _)
SpaceRunEnd(s, i) ==
    IF i <= Len(s) /\ IsSpace(CharAt(s, i)) THEN SpaceRunEnd(s, i + 1) ELSE i - 1

Undefined == "<undefined>"
\* a JSON value that is not a string (a number), truthy
NotAString == "<number>"
\* result of Date.getTime() on an Invalid Date
NaN == -1

\* !v for the string-or-undefined values of the model
Falsy(v) == v \in {Undefined, ""}
\* typeof v === 'string'
IsString(v) == v \notin {Undefined, NotAString}
\* `${v}` inside a template literal
Str(v) == IF v = Undefined THEN "undefined" ELSE v

\* the calendar days of the modelled window, in order
Calendar == <<"2024-03-30", "2024-03-31", "2024-04-01">>
\* toISOString().split("T")[0] of the n-th day of the window
DayStr(n) == Calendar[n]
\* the date strings that name a real calendar day of the window
Days == {Calendar[n] : n \in 1..Len(Calendar)}
\* matches /^\d{4}-\d{2}-\d{2}$/ but is no calendar date
NoSuchDay == "2024-13-45"
\* does not match /^\d{4}-\d{2}-\d{2}$/
BadDate == "01/02/2024"
\* /^\d{4}-\d{2}-\d{2}$/.test(s)
DateRegexTest(s) == s \in Days \cup {NoSuchDay}
\* new Date(s).getTime() in days; NaN for an Invalid Date
ParseDay(s) == IF s \in Days THEN CHOOSE n \in 1..Len(Calendar) : DayStr(n) = s ELSE NaN

\* the time zones a browser may run in: one without daylight saving time, one
\* that puts its clocks forward within the window (on 2024-03-31 at 01:00Z)
LocalZones == {"UTC", "Europe/Berlin"}
\* the last day of the window whose UTC midnight still has the zone's
\* winter offset
LastWinterDay(zone) == IF zone = "Europe/Berlin" THEN ParseDay("2024-03-31")
                       ELSE Len(Calendar)
\* d = new Date(<day>); d.setDate(d.getDate() + daysDiff);
\* d.toISOString().split("T")[0], as a day number.  setDate keeps the local
\* wall-clock time of UTC midnight; behind the change of clocks that wall
\* time is an hour earlier in UTC, which is the evening of the day before.
SetDate(day, daysDiff, zone) ==
    IF day <= LastWinterDay(zone) /\ day + daysDiff > LastWinterDay(zone)
    THEN day + daysDiff - 1
    ELSE day + daysDiff

\* ------------------------------------------------------------- validator
WorkoutTypes == {"run", "bike", "swim", "strength", "rest"}
IntensityLevels == {"easy", "moderate", "hard", "race"}

isValidWorkoutType(type) == type \in WorkoutTypes
isValidIntensity(intensity) == intensity \in IntensityLevels
isValidISODate(dateString) ==
    /\ DateRegexTest(dateString)
    /\ ParseDay(dateString) # NaN

\* join(', ') of a list of strings
RECURSIVE Join(_, _)
Join(strs, sep) ==
    IF strs = <<>> THEN ""
    ELSE IF Len(strs) = 1 THEN strs[1]
    ELSE strs[1] \o sep \o Join(Tail(strs), sep)

\* errors.push(e) when cond
PushIf(errors, cond, e) == IF cond THEN Append(errors, e) ELSE errors

\* the body of validateWorkout between `errors = []` and the return
WorkoutRuleErrors(workout) ==
    LET e1 == PushIf(<<>>, Falsy(workout.id), "Workout ID is required")
        e2 == IF Falsy(workout.date)
              THEN Append(e1, "Workout date is required")
              ELSE PushIf(e1, ~isValidISODate(workout.date),
                          "Invalid date format. Use YYYY-MM-DD")
        e3 == IF Falsy(workout.type)
              THEN Append(e2, "Workout type is required")
              ELSE PushIf(e2, ~isValidWorkoutType(workout.type),
                          "Invalid workout type: " \o workout.type)
        e4 == PushIf(e3, Falsy(workout.name), "Workout name is required")
        e5 == PushIf(e4, Falsy(workout.description),
                     "Workout description is required")
        e6 == PushIf(e5, workout.duration # <<>> /\ workout.duration[1] < 0,
                     "Duration must be positive")
        e7 == PushIf(e6, workout.distance # <<>> /\ workout.distance[1] < 0,
                     "Distance must be positive")
        e8 == PushIf(e7, ~Falsy(workout.intensity)
                          /\ ~isValidIntensity(workout.intensity),
                     "Invalid intensity: " \o workout.intensity)
    IN e8

\* a validator that stops at the first violated rule
validateWorkout_FirstOnly(workout) ==
    LET all == WorkoutRuleErrors(workout)
        errors == IF all = <<>> THEN <<>> ELSE <<all[1]>>
    IN [valid |-> errors = <<>>, errors |-> errors]

validateWorkout(workout) ==
    LET errors == WorkoutRuleErrors(workout)
    IN [valid |-> errors = <<>>, errors |-> errors]

\* plan.workouts.forEach(...): one string per invalid workout
RECURSIVE WorkoutErrors(_, _)
WorkoutErrors(workouts, index) ==
    IF index > Len(workouts) THEN <<>>
    ELSE LET v == validateWorkout(workouts[index])
             rest == WorkoutErrors(workouts, index + 1)
         IN IF ~v.valid
            THEN <<"Workout " \o ToString(index) \o ": " \o Join(v.errors, ", ")>>
                 \o rest
            ELSE rest

\* the value of a `workouts` field that is missing or is not an array
NotAnArray == <<[notAnArray |-> TRUE]>>
\* Array.isArray(v)
IsArray(v) == v # NotAnArray

\* a validator that accepts a plan ending on the day it starts
EndNotAfterStart_EarlierOnly(startDate, endDate) ==
    ParseDay(endDate) < ParseDay(startDate)

\* end <= start on the two parsed dates
EndNotAfterStart(startDate, endDate) ==
    ParseDay(endDate) <= ParseDay(startDate)

validateTrainingPlan(plan) ==
    LET isArray == IsArray(plan.workouts)
        e1 == PushIf(<<>>, Falsy(plan.id), "Plan ID is required")
        e2 == PushIf(e1, Falsy(plan.name), "Plan name is required")
        e3 == IF Falsy(plan.startDate)
              THEN Append(e2, "Start date is required")
              ELSE PushIf(e2, ~isValidISODate(plan.startDate),
                          "Invalid start date format")
        e4 == IF Falsy(plan.endDate)
              THEN Append(e3, "End date is required")
              ELSE PushIf(e3, ~isValidISODate(plan.endDate),
                          "Invalid end date format")
        e5 == IF ~isArray
              THEN Append(e4, "Workouts array is required")
              ELSE PushIf(e4, Len(plan.workouts) = 0,
                          "Plan must have at least one workout")
        e6 == PushIf(e5, /\ ~Falsy(plan.startDate) /\ ~Falsy(plan.endDate)
                         /\ isValidISODate(plan.startDate)
                         /\ isValidISODate(plan.endDate)
                         /\ EndNotAfterStart(plan.startDate, plan.endDate),
                     "End date must be after start date")
        e7 == IF isArray THEN e6 \o WorkoutErrors(plan.workouts, 1) ELSE e6
    IN [valid |-> e7 = <<>>, errors |-> e7]

\* Math.ceil(Math.ceil(|end - start| in days) / 7); NaN when a date is invalid
calculateWeeks(startDate, endDate) ==
    LET start == ParseDay(startDate)
        end == ParseDay(endDate)
        diffDays == IF end >= start THEN end - start ELSE start - end
    IN IF start = NaN \/ end = NaN THEN NaN ELSE (diffDays + 6) \div 7

\* generateWorkoutId() / generatePlanId(): the k-th identifier handed out
generateWorkoutId(k) == "workout_" \o ToString(k)
generatePlanId == "plan_1"

\* ----------------------------------------------- direct JSON import adapter
\* a JSON value that is not an object (null, a number, a string)
NotAnObject == [isObject |-> FALSE]

\* the error of json-parser's validateWorkout for entry `w` at 0-based `index`,
\* or "" when the entry is valid
JSONWorkoutError(w, index) ==
    LET at == "Workout at index " \o ToString(index)
    IN IF ~w.isObject THEN at \o " is not an object"
       ELSE IF Falsy(w.date) \/ ~IsString(w.date)
       THEN at \o " is missing a valid 'date' field (expected YYYY-MM-DD format)"
       ELSE IF ~DateRegexTest(w.date)
       THEN at \o " has invalid date format: " \o w.date \o ". Expected YYYY-MM-DD"
       ELSE IF Falsy(w.type) \/ ~IsString(w.type)
       THEN at \o " is missing a valid 'type' field"
       ELSE IF w.type \notin WorkoutTypes
       THEN at \o " has invalid type: " \o w.type
               \o ". Expected one of: run, bike, swim, strength, rest"
       ELSE IF Falsy(w.name) \/ ~IsString(w.name)
       THEN at \o " is missing a valid 'name' field"
       ELSE IF ~Falsy(w.intensity) /\ IsString(w.intensity)
               /\ w.intensity \notin IntensityLevels
       THEN at \o " has invalid intensity: " \o w.intensity
               \o ". Expected one of: easy, moderate, hard, race"
       ELSE ""

\* json-parser's validateWorkout: [valid, error, workout]
validateWorkoutJSON(w, index) ==
    LET error == JSONWorkoutError(w, index)
    IN IF error # ""
       THEN [valid |-> FALSE, error |-> error, workout |-> <<>>]
       ELSE [valid |-> TRUE, error |-> Undefined,
             workout |-> <<[date |-> w.date, type |-> w.type, name |-> w.name,
                            description |-> IF Falsy(w.description) THEN ""
                                            ELSE w.description,
                            duration |-> w.duration, distance |-> w.distance,
                            intensity |-> w.intensity]>>]

\* a loop that skips invalid entries and imports the valid ones
RECURSIVE ValidateEntries_SkipInvalid(_, _, _)
ValidateEntries_SkipInvalid(workouts, i, validatedWorkouts) ==
    IF i > Len(workouts)
    THEN [valid |-> TRUE, error |-> Undefined, workouts |-> validatedWorkouts]
    ELSE LET result == validateWorkoutJSON(workouts[i], i - 1)
         IN IF ~result.valid
            THEN ValidateEntries_SkipInvalid(workouts, i + 1, validatedWorkouts)
            ELSE ValidateEntries_SkipInvalid(workouts, i + 1,
                    Append(validatedWorkouts,
                           [id |-> generateWorkoutId(i)] @@ result.workout[1]))

\* the for loop of validateTrainingPlanJSON from entry i on, with the workouts
\* validated so far: stops at the first invalid entry
RECURSIVE ValidateEntries(_, _, _)
ValidateEntries(workouts, i, validatedWorkouts) ==
    IF i > Len(workouts)
    THEN [valid |-> TRUE, error |-> Undefined, workouts |-> validatedWorkouts]
    ELSE LET result == validateWorkoutJSON(workouts[i], i - 1)
         IN IF ~result.valid
            THEN [valid |-> FALSE, error |-> result.error, workouts |-> <<>>]
            ELSE ValidateEntries(workouts, i + 1,
                    Append(validatedWorkouts,
                           [id |-> generateWorkoutId(i)] @@ result.workout[1]))

Invalid(error) == [valid |-> FALSE, error |-> error, plan |-> <<>>]

\* data: [isObject, name, startDate, endDate, workouts]
validateTrainingPlanJSON(data) ==
    IF ~data.isObject THEN Invalid("Invalid JSON: expected an object")
    ELSE IF Falsy(data.name) \/ ~IsString(data.name)
    THEN Invalid("Missing required field: 'name' (string)")
    ELSE IF Falsy(data.startDate) \/ ~IsString(data.startDate)
    THEN Invalid("Missing required field: 'startDate' (YYYY-MM-DD format)")
    ELSE IF Falsy(data.endDate) \/ ~IsString(data.endDate)
    THEN Invalid("Missing required field: 'endDate' (YYYY-MM-DD format)")
    ELSE IF ~DateRegexTest(data.startDate)
    THEN Invalid("Invalid startDate format: " \o data.startDate
                 \o ". Expected YYYY-MM-DD")
    ELSE IF ~DateRegexTest(data.endDate)
    THEN Invalid("Invalid endDate format: " \o data.endDate
                 \o ". Expected YYYY-MM-DD")
    ELSE IF ~IsArray(data.workouts)
    THEN Invalid("Missing required field: 'workouts' (array)")
    ELSE IF Len(data.workouts) = 0 THEN Invalid("Workouts array is empty")
    ELSE LET entries == ValidateEntries(data.workouts, 1, <<>>)
         IN IF ~entries.valid THEN Invalid(entries.error)
            ELSE [valid |-> TRUE, error |-> Undefined,
                  plan |-> <<[id |-> generatePlanId, name |-> data.name,
                              startDate |-> data.startDate,
                              endDate |-> data.endDate,
                              weeks |-> calculateWeeks(data.startDate, data.endDate),
                              workouts |-> entries.workouts,
                              source |-> "json-import"]>>]

\* file: [isJSON, size, readable, parses, filename, data]
MaxJSONSize == 5
validateJSONFile(file) ==
    IF ~file.isJSON THEN [valid |-> FALSE, error |-> "File must be a JSON file"]
    ELSE IF file.size > MaxJSONSize
    THEN [valid |-> FALSE, error |-> "JSON file must be less than 5MB"]
    ELSE [valid |-> TRUE, error |-> Undefined]

\* APIResult: [success, error, data] with data <<>> or <<plan>>
processJSONFile(file) ==
    LET validation == validateJSONFile(file)
    IN IF ~validation.valid
       THEN [success |-> FALSE, error |-> validation.error, data |-> <<>>]
       ELSE IF ~file.readable
       THEN [success |-> FALSE, error |-> "Failed to read file", data |-> <<>>]
       ELSE IF ~file.parses
       THEN [success |-> FALSE, data |-> <<>>,
             error |-> "Failed to parse JSON file. Please ensure it is valid JSON."]
       ELSE LET result == validateTrainingPlanJSON(file.data)
            IN IF ~result.valid
               THEN [success |-> FALSE, error |-> result.error, data |-> <<>>]
               ELSE [success |-> TRUE, error |-> Undefined,
                     data |-> <<[result.plan[1] EXCEPT !.source = file.filename]>>]

\* ------------------------------------------------ interval text formatter
\* A pace mapping is a function from intensity labels to the values the user
\* typed; an interval is [repeat, duration, durationType, intensity, recovery,
\* recoveryIntensity, ramp] with recovery and ramp <<>> when absent.

\* a falsy optional number: undefined or 0
FalsyNum(n) == n = <<>> \/ n[1] = 0

EmptyMapping == [k \in {} |-> ""]
\* a lookup that ignores the letter case of the label
PaceMappingGet_Lowercased(paceMapping, intensity) ==
    IF ToLowerCase(intensity) \in DOMAIN paceMapping
    THEN paceMapping[ToLowerCase(intensity)]
    ELSE IF intensity \in InheritedMethods THEN InheritedFunction
    ELSE Undefined

\* paceMapping[intensity]: an own entry, an inherited member, or undefined
PaceMappingGet(paceMapping, intensity) ==
    IF intensity \in DOMAIN paceMapping THEN paceMapping[intensity]
    ELSE IF intensity \in InheritedMethods THEN InheritedFunction
    ELSE Undefined

\* /^Z[1-5]$/i.test(intensity)
IsZoneToken(intensity) ==
    /\ Len(intensity) = 2
    /\ CharAt(intensity, 1) \in {"Z", "z"}
    /\ CharAt(intensity, 2) \in {"1", "2", "3", "4", "5"}

\* /^\d+:\d+/.test(value)
StartsWithClockTime(value) ==
    LET e == DigitRunEnd(value, 1)
    IN /\ e >= 1
       /\ e + 2 <= Len(value)
       /\ CharAt(value, e + 1) = ":"
       /\ IsDigit(CharAt(value, e + 2))

\* intensityMap[normalized]: an own entry, an inherited member, or undefined
IntensityMapGet(normalized, workoutType) ==
    CASE normalized = "easy" -> IF workoutType = "run" THEN "Easy pace" ELSE "Z2"
      [] normalized = "recovery" -> "Z1"
      [] normalized \in {"endurance", "aerobic"} -> "Z2"
      [] normalized = "tempo" -> "Z3"
      [] normalized \in {"threshold", "lactate threshold", "lt"} -> "Z4"
      [] normalized \in {"vo2 max", "vo2max", "intervals"} -> "Z5"
      [] normalized = "5k pace" -> "5K pace"
      [] normalized = "10k pace" -> "10K pace"
      [] normalized = "marathon pace" -> "Marathon pace"
      [] normalized = "half marathon pace" -> "Half Marathon pace"
      [] normalized = "ftp" -> "100%"
      [] normalized = "sweet spot" -> "88-93%"
      [] normalized \in InheritedMethods -> InheritedFunction
      [] OTHER -> Undefined

\* the token of a truthy mapped value, or TypeErrorThrown
MappedToken(mappedValue) ==
    IF mappedValue = InheritedFunction
    THEN TypeErrorThrown  \* mappedValue.includes is not a function
    ELSE IF /\ \/ Contains(mappedValue, "/km")
               \/ Contains(mappedValue, "/mi")
               \/ StartsWithClockTime(mappedValue)
            /\ ~Contains(ToLowerCase(mappedValue), "pace")
    THEN mappedValue \o " Pace"
    ELSE mappedValue

\* intensityMap[normalized] || intensity
LexiconToken(intensity, mapped) == IF Falsy(mapped) THEN intensity ELSE mapped

\* the token of a label without a truthy mapped value, or TypeErrorThrown
UnmappedToken(intensity, workoutType) ==
    IF ~IsString(intensity)
    THEN TypeErrorThrown  \* intensity.includes is not a function
    ELSE IF IsZoneToken(intensity) THEN ToUpperCase(intensity)
    ELSE IF Contains(intensity, "%") THEN intensity
    ELSE LexiconToken(intensity,
                      IntensityMapGet(Trim(ToLowerCase(intensity)), workoutType))

\* the token of a truthy label whose mapping lookup gave mappedValue
TokenOf(intensity, workoutType, mappedValue) ==
    IF ~Falsy(mappedValue) THEN MappedToken(mappedValue)
    ELSE UnmappedToken(intensity, workoutType)

\* formatIntensity: the rendered token, or TypeErrorThrown
formatIntensity(intensity, workoutType, paceMapping) ==
    IF Falsy(intensity)
    THEN (IF workoutType = "run" THEN "Easy pace" ELSE "moderate")
    ELSE TokenOf(intensity, workoutType, PaceMappingGet(paceMapping, intensity))

\* (meters / 1000).toFixed(1), for lengths that are no rounding tie
ToFixed1(meters) ==
    LET tenths == (meters + 50) \div 100
    IN ToString(tenths \div 10) \o "." \o ToString(tenths % 10)

\* the duration part of formatSingleInterval
formatDuration(duration, durationType) ==
    IF durationType = "distance"
    THEN (IF duration >= 1000 THEN ToFixed1(duration) \o "km"
          ELSE ToString(duration) \o "m")
    ELSE IF duration >= 60
         THEN (IF duration % 60 > 0
               THEN ToString(duration \div 60) \o "m" \o ToString(duration % 60) \o "s"
               ELSE ToString(duration \div 60) \o "m")
         ELSE ToString(duration) \o "s"

\* a recovery rendering whose kilometre form starts above 1000 m
formatRecoveryDuration_Above1000(recovery, durationType) ==
    IF durationType = "distance"
    THEN (IF recovery > 1000 THEN ToFixed1(recovery) \o "km"
          ELSE ToString(recovery) \o "m")
    ELSE IF recovery >= 60
         THEN (IF recovery % 60 > 0
               THEN ToString(recovery \div 60) \o "m" \o ToString(recovery % 60) \o "s"
               ELSE ToString(recovery \div 60) \o "m")
         ELSE ToString(recovery) \o "s"

\* the duration part of formatRecovery
formatRecoveryDuration(recovery, durationType) ==
    IF durationType = "distance"
    THEN (IF recovery >= 1000 THEN ToFixed1(recovery) \o "km"
          ELSE ToString(recovery) \o "m")
    ELSE IF recovery >= 60
         THEN (IF recovery % 60 > 0
               THEN ToString(recovery \div 60) \o "m" \o ToString(recovery % 60) \o "s"
               ELSE ToString(recovery \div 60) \o "m")
         ELSE ToString(recovery) \o "s"

\* the return statements of formatSingleInterval
IntervalText(interval, durationStr, intensityStr) ==
    IF intensityStr = TypeErrorThrown THEN TypeErrorThrown
    ELSE IF interval.ramp # <<>>
    THEN durationStr \o " Ramp " \o interval.ramp[1].start \o "-"
         \o interval.ramp[1].end
    ELSE durationStr \o " " \o intensityStr

\* formatSingleInterval: the line of the work segment, or TypeErrorThrown
formatSingleInterval(interval, workoutType, paceMapping) ==
    IntervalText(interval,
                 formatDuration(interval.duration, interval.durationType),
                 formatIntensity(interval.intensity, workoutType, paceMapping))

\* the return statement of formatRecovery
RecoveryText(recoveryStr, intensityStr) ==
    IF intensityStr = TypeErrorThrown THEN TypeErrorThrown
    ELSE recoveryStr \o " " \o intensityStr

\* formatRecovery: the line of the recovery segment, or TypeErrorThrown
formatRecovery(interval, workoutType, paceMapping) ==
    IF FalsyNum(interval.recovery) THEN ""
    ELSE RecoveryText(formatRecoveryDuration(interval.recovery[1],
                                             interval.durationType),
                      formatIntensity(IF Falsy(interval.recoveryIntensity)
                                      THEN "Easy" ELSE interval.recoveryIntensity,
                                      workoutType, paceMapping))

\* `- ${line}`, of a line that did not fault
Dash(line) == IF line = TypeErrorThrown THEN line ELSE "- " \o line

\* the lines formatIntervals pushes for one interval
LinesOfInterval(interval, workoutType, paceMapping) ==
    (IF interval.repeat > 1 THEN <<ToString(interval.repeat) \o "x">> ELSE <<>>)
    \o <<Dash(formatSingleInterval(interval, workoutType, paceMapping))>>
    \o (IF FalsyNum(interval.recovery) THEN <<>>
        ELSE <<Dash(formatRecovery(interval, workoutType, paceMapping))>>)

\* the `lines` of formatIntervals; a line that faulted is TypeErrorThrown
RECURSIVE IntervalLines(_, _, _)
IntervalLines(intervals, workoutType, paceMapping) ==
    IF intervals = <<>> THEN <<>>
    ELSE LinesOfInterval(Head(intervals), workoutType, paceMapping)
         \o IntervalLines(Tail(intervals), workoutType, paceMapping)

\* lines.join('\n'), or TypeErrorThrown when a line faulted
JoinLines(lines) ==
    IF \E k \in 1..Len(lines) : lines[k] = TypeErrorThrown THEN TypeErrorThrown
    ELSE Join(lines, "\n")

\* formatIntervals: the lines joined, or TypeErrorThrown
formatIntervals(intervals, workoutType, paceMapping) ==
    JoinLines(IntervalLines(intervals, workoutType, paceMapping))

\* text.match(/(\d+)\s*(min|minute|minutes|m)/i): [found, from, to, digits]
\* for the leftmost match; of the alternatives only min and m can be chosen
TimeMatchAt(text, i) ==
    LET e == DigitRunEnd(text, i)
        k == SpaceRunEnd(text, e + 1) + 1
        rest == ToLowerCase(From(text, k))
    IN IF e < i THEN [found |-> FALSE]
       ELSE IF StartsWith(rest, "min")
       THEN [found |-> TRUE, from |-> i, to |-> k + 2, digits |-> SubSeq(text, i, e)]
       ELSE IF StartsWith(rest, "m")
       THEN [found |-> TRUE, from |-> i, to |-> k, digits |-> SubSeq(text, i, e)]
       ELSE [found |-> FALSE]

\* text.match(/(\d+)\s*(km|k|miles?|m)\b/i), consulted when the time pattern
\* found nothing (so no run of digits is followed by an m): [found, from, to,
\* digits] for the leftmost match
DistanceMatchAt(text, i) ==
    LET e == DigitRunEnd(text, i)
        k == SpaceRunEnd(text, e + 1) + 1
        rest == ToLowerCase(From(text, k))
        boundaryAfter(j) == j >= Len(text) \/ ~IsWordChar(CharAt(text, j + 1))
    IN IF e < i THEN [found |-> FALSE]
       ELSE IF StartsWith(rest, "km") /\ boundaryAfter(k + 1)
       THEN [found |-> TRUE, from |-> i, to |-> k + 1, digits |-> SubSeq(text, i, e)]
       ELSE IF StartsWith(rest, "k") /\ boundaryAfter(k)
       THEN [found |-> TRUE, from |-> i, to |-> k, digits |-> SubSeq(text, i, e)]
       ELSE [found |-> FALSE]

\* the leftmost match of the time pattern in text
FirstTimeMatch(text) ==
    LET starts == {i \in 1..Len(text) : TimeMatchAt(text, i).found}
    IN IF starts = {} THEN [found |-> FALSE]
       ELSE TimeMatchAt(text, CHOOSE i \in starts : \A j \in starts : i <= j)

\* the leftmost match of the distance pattern in text
FirstDistanceMatch(text) ==
    LET starts == {i \in 1..Len(text) : DistanceMatchAt(text, i).found}
    IN IF starts = {} THEN [found |-> FALSE]
       ELSE DistanceMatchAt(text, CHOOSE i \in starts : \A j \in starts : i <= j)

\* text.replace(match[0], '')
WithoutMatch(text, m) == SubSeq(text, 1, m.from - 1) \o From(text, m.to + 1)

\* `.trim() || 'Easy'`
OrEasy(left) == IF Trim(left) = "" THEN "Easy" ELSE Trim(left)

\* text.replace(match[0], '').trim() || 'Easy'
PhaseIntensity(text, m) == OrEasy(WithoutMatch(text, m))

\* `- ${quantity} ${intensityStr}`, or TypeErrorThrown
PhaseLine(quantity, intensityStr) ==
    IF intensityStr = TypeErrorThrown THEN TypeErrorThrown
    ELSE "- " \o quantity \o " " \o intensityStr

\* the return statement of formatPhaseText for a match m
PhaseLineOfMatch(text, m, unit, paceMapping) ==
    PhaseLine(m.digits \o unit,
              formatIntensity(PhaseIntensity(text, m), "run", paceMapping))

\* the branches of formatPhaseText
PhaseTextOf(text, paceMapping, timeMatch, distanceMatch) ==
    IF timeMatch.found THEN PhaseLineOfMatch(text, timeMatch, "m", paceMapping)
    ELSE IF distanceMatch.found
    THEN PhaseLineOfMatch(text, distanceMatch, "km", paceMapping)
    ELSE "- " \o text

\* formatPhaseText: the phase line, or TypeErrorThrown
formatPhaseText(text, paceMapping) ==
    PhaseTextOf(text, paceMapping, FirstTimeMatch(text), FirstDistanceMatch(text))

WarmupWords == <<"warmup", "warm-up", "warm up">>
CooldownWords == <<"cooldown", "cool-down", "cool down">>
\* line.match(/^(word1|word2|word3):?\s*(.+)/i)[2], or Undefined when the
\* line does not match
PhaseMatch(line, words) ==
    LET hits == {k \in 1..Len(words) :
                    /\ Len(line) >= Len(words[k])
                    /\ ToLowerCase(SubSeq(line, 1, Len(words[k]))) = words[k]}
    IN IF hits = {} THEN Undefined
       ELSE LET word == words[CHOOSE k \in hits : \A h \in hits : k <= h]
                rest == From(line, Len(word) + 1)
                afterColon == IF StartsWith(rest, ":") THEN From(rest, 2) ELSE rest
                text == TrimStart(afterColon)
            IN IF rest = "" THEN Undefined
               ELSE IF text # "" THEN text
               ELSE CharAt(rest, Len(rest))  \* what backtracking leaves to (.+)

\* the body of the for loop of detectWorkoutPhases for one trimmed line
PhasesWith(line, paceMapping, phases, warmupText, cooldownText) ==
    IF line = "" THEN phases
    ELSE IF warmupText # Undefined
    THEN [phases EXCEPT !.warmup = formatPhaseText(warmupText, paceMapping)]
    ELSE IF cooldownText # Undefined
    THEN [phases EXCEPT !.cooldown = formatPhaseText(cooldownText, paceMapping)]
    ELSE phases

PhasesAfterLine(line, paceMapping, phases) ==
    PhasesWith(line, paceMapping, phases,
               PhaseMatch(line, WarmupWords), PhaseMatch(line, CooldownWords))

\* the for loop of detectWorkoutPhases over the lines
RECURSIVE DetectPhases(_, _, _)
DetectPhases(lines, paceMapping, phases) ==
    IF lines = <<>> THEN phases
    ELSE DetectPhases(Tail(lines), paceMapping,
                      PhasesAfterLine(Trim(Head(lines)), paceMapping, phases))

\* the phases with the fault of a phase line made explicit
PhasesResult(phases) ==
    [throws |-> TypeErrorThrown \in {phases.warmup, phases.cooldown},
     warmup |-> phases.warmup, cooldown |-> phases.cooldown]

\* detectWorkoutPhases: [throws, warmup, cooldown]; description.split faults
\* when the description is no string
detectWorkoutPhases(description, paceMapping) ==
    IF ~IsString(description)
    THEN [throws |-> TRUE, warmup |-> Undefined, cooldown |-> Undefined]
    ELSE PhasesResult(DetectPhases(SplitLines(description), paceMapping,
                                   [warmup |-> Undefined, cooldown |-> Undefined]))

\* workout.intervals || []
IntervalsOf(workout) ==
    IF "intervals" \in DOMAIN workout THEN workout.intervals ELSE <<>>

\* a synthetic interval that takes the duration before the distance
SyntheticInterval_DurationFirst(workout) ==
    [repeat |-> 1,
     duration |-> IF ~FalsyNum(workout.duration) THEN workout.duration[1] * 60
                  ELSE (IF workout.distance = <<>> THEN 0
                        ELSE workout.distance[1]) * 1000,
     durationType |-> IF ~FalsyNum(workout.duration) THEN "time" ELSE "distance",
     intensity |-> IF Falsy(workout.intensity) THEN "Easy" ELSE workout.intensity,
     recovery |-> <<>>, recoveryIntensity |-> Undefined, ramp |-> <<>>]

\* the synthetic interval made from the workout's own duration or distance
SyntheticInterval(workout) ==
    [repeat |-> 1,
     duration |-> IF ~FalsyNum(workout.distance) THEN workout.distance[1] * 1000
                  ELSE (IF workout.duration = <<>> THEN 0
                        ELSE workout.duration[1]) * 60,
     durationType |-> IF ~FalsyNum(workout.distance) THEN "distance" ELSE "time",
     intensity |-> IF Falsy(workout.intensity) THEN "Easy" ELSE workout.intensity,
     recovery |-> <<>>, recoveryIntensity |-> Undefined, ramp |-> <<>>]

\* sections that put the cooldown before the main set
BuildSections_CooldownFirst(phases, intervalsToFormat, intervalText) ==
    (IF ~Falsy(phases.warmup) THEN <<"Warmup", phases.warmup, "">> ELSE <<>>)
    \o (IF ~Falsy(phases.cooldown) THEN <<"Cooldown", phases.cooldown, "">>
        ELSE <<>>)
    \o (IF \/ ~Falsy(phases.warmup) \/ ~Falsy(phases.cooldown)
           \/ Len(intervalsToFormat) > 1
        THEN <<"Main Set">> ELSE <<>>)
    \o <<intervalText, "">>

\* the sections with the main set labelled unconditionally
BuildSections_AlwaysLabelled(phases, intervalsToFormat, intervalText) ==
    (IF ~Falsy(phases.warmup) THEN <<"Warmup", phases.warmup, "">> ELSE <<>>)
    \o <<"Main Set", intervalText, "">>
    \o (IF ~Falsy(phases.cooldown) THEN <<"Cooldown", phases.cooldown, "">>
        ELSE <<>>)

\* the `sections` of formatWorkoutForIntervalsICU (intervalsToFormat is never
\* empty here)
BuildSections(phases, intervalsToFormat, intervalText) ==
    (IF ~Falsy(phases.warmup) THEN <<"Warmup", phases.warmup, "">> ELSE <<>>)
    \o (IF \/ ~Falsy(phases.warmup) \/ ~Falsy(phases.cooldown)
           \/ Len(intervalsToFormat) > 1
        THEN <<"Main Set">> ELSE <<>>)
    \o <<intervalText, "">>
    \o (IF ~Falsy(phases.cooldown) THEN <<"Cooldown", phases.cooldown, "">>
        ELSE <<>>)

\* the intervals the formatter renders: the workout's own or the synthetic one
IntervalsToFormat(workout) ==
    IF Len(IntervalsOf(workout)) = 0 THEN <<SyntheticInterval(workout)>>
    ELSE IntervalsOf(workout)

\* `if (!formatted) return workout.description; ... return formatted`
FormattedOrDescription(workout, formatted) ==
    IF formatted = "" THEN workout.description ELSE formatted

\* the part of formatWorkoutForIntervalsICU that builds the sections
FormatSections(workout, intervalsToFormat, phases, intervalText) ==
    IF phases.throws \/ intervalText = TypeErrorThrown
    THEN [throws |-> TRUE, text |-> Undefined]
    ELSE [throws |-> FALSE,
          text |-> FormattedOrDescription(
                       workout,
                       Trim(Join(BuildSections(phases, intervalsToFormat,
                                               intervalText), "\n")))]

\* formatWorkoutForIntervalsICU(workout, paceMapping): [throws, text]
formatWorkoutForIntervalsICU(workout, paceMapping) ==
    IF /\ Len(IntervalsOf(workout)) = 0
       /\ FalsyNum(workout.distance) /\ FalsyNum(workout.duration)
    THEN [throws |-> FALSE, text |-> workout.description]
    ELSE FormatSections(workout, IntervalsToFormat(workout),
                        detectWorkoutPhases(workout.description, paceMapping),
                        formatIntervals(IntervalsToFormat(workout), workout.type,
                                        paceMapping))

\* ------------------------------------------------------ upload orchestrator
\* categoryMap[type]: an own entry, an inherited member, or undefined
CategoryMapGet(type) ==
    CASE type = "run" -> "Run"
      [] type = "bike" -> "Ride"
      [] type = "swim" -> "Swim"
      [] type = "strength" -> "WeightTraining"
      [] type \in InheritedMethods -> InheritedFunction
      [] OTHER -> Undefined

\* categoryMap[workout.type] || 'Run'
CategoryOf(type) ==
    IF Falsy(CategoryMapGet(type)) THEN "Run" ELSE CategoryMapGet(type)

\* a conversion that sends the minutes as they are
MinutesToSeconds_Unconverted(duration) == duration
\* workout.duration * 60
MinutesToSeconds(duration) == duration * 60
\* workout.distance * 1000
KilometersToMeters(distance) == distance * 1000

\* formatWorkoutForAPI(workout): [throws, event]; workout.date.includes faults
\* when the date is undefined
\* the `formattedDescription` of formatWorkoutForAPI: a workout with
\* intervals is formatted anew, with the default pace mapping
FormattedDescription(workout) ==
    IF Len(IntervalsOf(workout)) > 0
    THEN formatWorkoutForIntervalsICU(workout, EmptyMapping)
    ELSE [throws |-> FALSE, text |-> workout.description]

\* an event keyed by the workout's name instead of its identifier
EventOf_KeyedByName(workout, formattedDescription) ==
    IF formattedDescription.throws THEN [throws |-> TRUE, event |-> <<>>]
    ELSE LET isRestDay == workout.type = "rest"
             formattedDate == IF Contains(workout.date, "T") THEN workout.date
                              ELSE workout.date \o "T00:00:00"
         IN [throws |-> FALSE,
             event |-> <<[external_id |-> workout.name,
                          category |-> IF isRestDay THEN "NOTE" ELSE "WORKOUT",
                          start_date_local |-> formattedDate,
                          name |-> workout.name,
                          description |-> formattedDescription.text,
                          type |-> IF isRestDay THEN Undefined
                                   ELSE CategoryOf(workout.type),
                          moving_time |-> IF FalsyNum(workout.duration) THEN <<>>
                                          ELSE <<MinutesToSeconds(workout.duration[1])>>,
                          distance |-> IF FalsyNum(workout.distance) THEN <<>>
                                       ELSE <<KilometersToMeters(workout.distance[1])>>]>>]

\* the event formatWorkoutForAPI returns for a workout with a date
EventOf(workout, formattedDescription) ==
    IF formattedDescription.throws THEN [throws |-> TRUE, event |-> <<>>]
    ELSE LET isRestDay == workout.type = "rest"
             formattedDate == IF Contains(workout.date, "T") THEN workout.date
                              ELSE workout.date \o "T00:00:00"
         IN [throws |-> FALSE,
             event |-> <<[external_id |-> workout.id,
                          category |-> IF isRestDay THEN "NOTE" ELSE "WORKOUT",
                          start_date_local |-> formattedDate,
                          name |-> workout.name,
                          description |-> formattedDescription.text,
                          type |-> IF isRestDay THEN Undefined
                                   ELSE CategoryOf(workout.type),
                          moving_time |-> IF FalsyNum(workout.duration) THEN <<>>
                                          ELSE <<MinutesToSeconds(workout.duration[1])>>,
                          distance |-> IF FalsyNum(workout.distance) THEN <<>>
                                       ELSE <<KilometersToMeters(workout.distance[1])>>]>>]

formatWorkoutForAPI(workout) ==
    IF workout.date = Undefined THEN [throws |-> TRUE, event |-> <<>>]
    ELSE EventOf(workout, FormattedDescription(workout))

\* JSON.stringify(event) as the fields the request body carries: a field
\* whose value is undefined or a function is left out (Undefined / <<>> here)
JSONStringifyEvent(event) ==
    [event EXCEPT !.type = IF @ = InheritedFunction THEN Undefined ELSE @]

\* how a fetch of the events endpoint can settle
FetchOutcomes == {"ok", "httpError", "networkError"}

\* the APIResult of uploadSingleWorkout once its request settled as `outcome`
SingleResult(workout, outcome) ==
    CASE outcome = "ok" -> [success |-> TRUE, error |-> Undefined]
      [] outcome = "httpError" -> [success |-> FALSE, error |-> "Bad Request"]
      [] outcome = "networkError" -> [success |-> FALSE, error |-> "Failed to fetch"]
      [] outcome = "formatFault" ->
            [success |-> FALSE,
             error |-> "Cannot read properties of undefined (reading 'includes')"]

\* `${workout.name} (${workout.date}): ${result.error}`
ErrorLine(workout, message) ==
    Str(workout.name) \o " (" \o Str(workout.date) \o "): " \o message

\* uploadWorkoutPlan's `results` and loop position while it runs:
\* u = [pc, i, workouts, succeeded, failed, errors], i counted from 1;
\* pc is "fetch" (request of workout i in flight), "delay" (the 200 ms timer
\* after workout i is pending) or "returned"

\* the loop body after uploadSingleWorkout(workouts[i]) settled as `outcome`:
\* count it, report progress, then pace or return
Settle_StopOnFailure(u, tr, outcome) ==
    LET workout == u.workouts[u.i]
        result == SingleResult(workout, outcome)
        total == Len(u.workouts)
        counted == IF result.success THEN [u EXCEPT !.succeeded = @ + 1]
                   ELSE [u EXCEPT !.failed = @ + 1,
                                  !.errors = Append(@, ErrorLine(workout, result.error))]
    IN [up |-> [counted EXCEPT !.pc = IF u.i < total /\ result.success
                                       THEN "delay" ELSE "returned"],
        trace |-> tr \o <<[e |-> "outcome", i |-> u.i, success |-> result.success,
                           message |-> result.error],
                          [e |-> "progress", current |-> u.i, total |-> total,
                           done |-> counted.succeeded + counted.failed]>>,
        progress |-> (u.i * 100) \div total]

Settle_FailureNotCounted(u, tr, outcome) ==
    LET workout == u.workouts[u.i]
        result == SingleResult(workout, outcome)
        total == Len(u.workouts)
        counted == IF result.success THEN [u EXCEPT !.succeeded = @ + 1]
                   ELSE [u EXCEPT !.succeeded = @ + 1,
                                  !.errors = Append(@, ErrorLine(workout, result.error))]
    IN [up |-> [counted EXCEPT !.pc = IF u.i < total THEN "delay" ELSE "returned"],
        trace |-> tr \o <<[e |-> "outcome", i |-> u.i, success |-> result.success,
                           message |-> result.error],
                          [e |-> "progress", current |-> u.i, total |-> total,
                           done |-> counted.succeeded + counted.failed]>>,
        progress |-> (u.i * 100) \div total]

Settle_ProgressOnSuccessOnly(u, tr, outcome) ==
    LET workout == u.workouts[u.i]
        result == SingleResult(workout, outcome)
        total == Len(u.workouts)
        counted == IF result.success THEN [u EXCEPT !.succeeded = @ + 1]
                   ELSE [u EXCEPT !.failed = @ + 1,
                                  !.errors = Append(@, ErrorLine(workout, result.error))]
    IN [up |-> [counted EXCEPT !.pc = IF u.i < total THEN "delay" ELSE "returned"],
        trace |-> tr \o <<[e |-> "outcome", i |-> u.i, success |-> result.success,
                           message |-> result.error]>>
                     \o (IF result.success
                         THEN <<[e |-> "progress", current |-> u.i, total |-> total,
                                 done |-> counted.succeeded + counted.failed]>>
                         ELSE <<>>),
        progress |-> (u.i * 100) \div total]

Settle(u, tr, outcome) ==
    LET workout == u.workouts[u.i]
        result == SingleResult(workout, outcome)
        total == Len(u.workouts)
        counted == IF result.success THEN [u EXCEPT !.succeeded = @ + 1]
                   ELSE [u EXCEPT !.failed = @ + 1,
                                  !.errors = Append(@, ErrorLine(workout, result.error))]
    IN [up |-> [counted EXCEPT !.pc = IF u.i < total THEN "delay" ELSE "returned"],
        trace |-> tr \o <<[e |-> "outcome", i |-> u.i, success |-> result.success,
                           message |-> result.error],
                          [e |-> "progress", current |-> u.i, total |-> total,
                           done |-> counted.succeeded + counted.failed]>>,
        progress |-> (u.i * 100) \div total]

\* uploadSingleWorkout(workouts[i]) up to its first suspension: the request is
\* issued, or formatWorkoutForAPI faulted and the attempt failed without one
Attempt(u, tr, progress) ==
    LET formatted == formatWorkoutForAPI(u.workouts[u.i])
        tr1 == Append(tr, [e |-> "attempt", i |-> u.i])
    IN IF formatted.throws THEN Settle(u, tr1, "formatFault")
       ELSE [up |-> [u EXCEPT !.pc = "fetch"],
             trace |-> Append(tr1, [e |-> "request", i |-> u.i,
                                    body |-> JSONStringifyEvent(formatted.event[1])]),
             progress |-> progress]

\* the APIResult uploadWorkoutPlan returns once the loop is over
UploadResult(u) ==
    IF u.failed > 0
    THEN [success |-> FALSE,
          error |-> "Uploaded " \o ToString(u.succeeded) \o " workouts, "
                    \o ToString(u.failed) \o " failed. Errors: "
                    \o Join(u.errors, "; ")]
    ELSE [success |-> TRUE, error |-> Undefined]

\* ------------------------------------------------- credential validation
\* an API key holding a character outside Latin-1, on which btoa faults
NonLatin1Key == "<key with a non-Latin-1 character>"
\* createAuthHeader(apiKey): [throws, header]
createAuthHeader(apiKey) ==
    IF apiKey = NonLatin1Key THEN [throws |-> TRUE, header |-> Undefined]
    ELSE [throws |-> FALSE, header |-> "Basic btoa(API_KEY:" \o apiKey \o ")"]

\* response.ok
ResponseOk(status) == status \in 200..299

\* the catch block of validateIntervalsICUAPIKey on the thrown value
\* [isError, message]
KeyCheckCaught(thrown) ==
    [success |-> FALSE, threw |-> FALSE,
     error |-> IF thrown.isError THEN thrown.message ELSE "Unknown error occurred"]

\* a check that treats 403 as any other failed status
validateIntervalsICUAPIKey_Only401(apiKey, probe) ==
    LET auth == createAuthHeader(apiKey)
    IN IF auth.throws
       THEN KeyCheckCaught([isError |-> TRUE, message |-> "Invalid character"])
       ELSE IF probe.kind = "rejects" THEN KeyCheckCaught(probe)
       ELSE IF probe.status = 401
       THEN [success |-> FALSE, threw |-> FALSE, error |-> "Invalid API key"]
       ELSE IF ~ResponseOk(probe.status)
       THEN [success |-> FALSE, threw |-> FALSE,
             error |-> "API validation failed with status " \o ToString(probe.status)]
       ELSE [success |-> TRUE, threw |-> FALSE, error |-> Undefined]

\* validateIntervalsICUAPIKey(apiKey) when its probe request settles as
\* `probe` ([kind, status, isError, message]): [success, error, threw]
validateIntervalsICUAPIKey(apiKey, probe) ==
    LET auth == createAuthHeader(apiKey)
    IN IF auth.throws
       THEN KeyCheckCaught([isError |-> TRUE, message |-> "Invalid character"])
       ELSE IF probe.kind = "rejects" THEN KeyCheckCaught(probe)
       ELSE IF probe.status = 401 \/ probe.status = 403
       THEN [success |-> FALSE, threw |-> FALSE, error |-> "Invalid API key"]
       ELSE IF ~ResponseOk(probe.status)
       THEN [success |-> FALSE, threw |-> FALSE,
             error |-> "API validation failed with status " \o ToString(probe.status)]
       ELSE [success |-> TRUE, threw |-> FALSE, error |-> Undefined]

\* ----------------------------------------------------- AI-assisted import
\* extractPlanFromPDF once the model's answer parsed as `extractedData`
\* ([name, startDate, endDate, workouts]): the TrainingPlan it returns
ExtractedPlan(extractedData, pdfFilename) ==
    LET endDate == IF Falsy(extractedData.endDate) THEN extractedData.startDate
                   ELSE extractedData.endDate
    IN [id |-> generatePlanId, name |-> extractedData.name,
        startDate |-> extractedData.startDate, endDate |-> endDate,
        weeks |-> calculateWeeks(extractedData.startDate, endDate),
        workouts |-> [k \in 1..Len(extractedData.workouts) |->
                        [extractedData.workouts[k] EXCEPT !.id = generateWorkoutId(k)]],
        source |-> pdfFilename]

\* how the steps of extractPlanFromPDF after the key was set can end: atob
\* throws on the base64 text, generateText rejects, the answer is not JSON,
\* the answer holds no workouts array, or the plan is returned
ExtractionOutcomes ==
    {"atob throws", "provider error", "not JSON", "no workouts", "plan"}

\* extractPlanFromPDF(pdfBase64, apiKey, pdfFilename) started with
\* process.env.GOOGLE_GENERATIVE_AI_API_KEY = originalKey (Undefined: absent):
\* [success, envKey], envKey the setting when the call returns
extractPlanFromPDF(originalKey, apiKey, outcome) ==
    IF outcome \in {"atob throws", "provider error"}
    THEN [success |-> FALSE, envKey |-> apiKey]
    ELSE [success |-> outcome = "plan",
          envKey |-> IF Falsy(originalKey) THEN Undefined ELSE originalKey]

\* --------------------------------------------------------------- state
VARIABLES
    input,          \* the argument handed to a pure function: [fn, arg]
    output,         \* <<>> until the function has returned, then <<result>>
    page,           \* the mounted route: "index", "preview" or "success"
    plan,           \* PreviewPage: useState plan
    isUploading,    \* PreviewPage: useState isUploading
    uploadProgress, \* PreviewPage: useState uploadProgress (integer part)
    pageError,      \* the mounted page's useState error (Undefined for null)
    nextId,         \* number of identifiers generateWorkoutId has handed out
    batchPlan,      \* the plan captured by the running handleUpload
    up,             \* the running uploadWorkoutPlan call: [pc, i, workouts, results]
    trace,          \* what the running batch did so far, in order
    uncaught,       \* a fault escaped handleUpload (unhandled rejection)
    paceMapping,    \* PreviewPage: useState paceMapping
    previewPaceMapping, \* PlanPreview: useState paceMapping (while mounted);
                    \* the PaceConfiguration dialog shows this mapping and
                    \* holds none of its own
    lastAccepted,   \* remote side: the external ids it accepted in the
                    \* previous batch of this plan
    setup           \* SetupPage: its useState values, the tests in flight and
                    \* localStorage

\* all sequences over S of length 0..n
SeqsUpTo(S, n) == UNION {[1..k -> S] : k \in 0..n}

\* ------------------------------------------- inputs of the pure functions
\* entries of a JSON file's workouts array
RawValid ==
    [isObject |-> TRUE, date |-> DayStr(1), type |-> "run", name |-> "Tempo",
     description |-> "5x1000m", duration |-> <<30>>, distance |-> <<5>>,
     intensity |-> "easy"]
RawWorkoutSamples ==
    { RawValid,
      [RawValid EXCEPT !.description = Undefined, !.duration = <<-5>>],
      [RawValid EXCEPT !.date = NoSuchDay, !.intensity = Undefined],
      [RawValid EXCEPT !.type = "yoga"],
      [RawValid EXCEPT !.date = Undefined],
      [RawValid EXCEPT !.intensity = "extreme", !.name = NotAString],
      NotAnObject }
RawPlans ==
    { [isObject |-> FALSE] } \cup
    [isObject : {TRUE}, name : {Undefined, "Plan"},
     startDate : {BadDate, DayStr(1), DayStr(2)},
     endDate : {Undefined, DayStr(1), DayStr(2)},
     workouts : {NotAnArray} \cup SeqsUpTo(RawWorkoutSamples, MaxWorkouts)]
GoodFile(data) ==
    [isJSON |-> TRUE, size |-> 1, readable |-> TRUE, parses |-> TRUE,
     filename |-> "plan.json", data |-> data]
JSONFiles ==
    { GoodFile(d) : d \in RawPlans } \cup
    { [GoodFile([isObject |-> FALSE]) EXCEPT !.isJSON = FALSE],
      [GoodFile([isObject |-> FALSE]) EXCEPT !.size = MaxJSONSize + 1],
      [GoodFile([isObject |-> FALSE]) EXCEPT !.readable = FALSE],
      [GoodFile([isObject |-> FALSE]) EXCEPT !.parses = FALSE] }

\* candidate workouts handed to validateWorkout
WorkoutCandidates ==
    [id : {Undefined, "workout_1"},
     date : {Undefined, BadDate, NoSuchDay, DayStr(1)},
     type : {Undefined, "yoga", "run"},
     name : {Undefined, "Tempo"},
     description : {"", "5x1000m"},
     duration : {<<>>, <<-5>>, <<30>>},
     distance : {<<>>, <<-1>>, <<5>>},
     intensity : {Undefined, "extreme", "easy"}]
CandValid ==
    [id |-> "workout_1", date |-> DayStr(1), type |-> "run", name |-> "Tempo",
     description |-> "5x1000m", duration |-> <<30>>, distance |-> <<>>,
     intensity |-> "easy"]
PlanWorkoutSamples ==
    { CandValid,
      [CandValid EXCEPT !.type = "yoga"],
      [CandValid EXCEPT !.description = "", !.duration = <<-5>>],
      [CandValid EXCEPT !.id = Undefined, !.date = BadDate,
                        !.intensity = "extreme"] }
PlanCandidates ==
    [id : {Undefined, "plan_1"}, name : {Undefined, "Plan"},
     startDate : {Undefined, BadDate, DayStr(1), DayStr(2)},
     endDate : {Undefined, NoSuchDay, DayStr(1), DayStr(2)},
     workouts : {NotAnArray} \cup SeqsUpTo(PlanWorkoutSamples, MaxWorkouts)]

\* how the probe request of validateIntervalsICUAPIKey can settle
ProbeStatuses == {200, 204, 301, 400, 401, 403, 404, 429, 500}
ProbeOutcomes ==
    { [kind |-> "response", status |-> st, isError |-> FALSE, message |-> Undefined]
        : st \in ProbeStatuses } \cup
    { [kind |-> "rejects", status |-> 0, isError |-> TRUE, message |-> "Failed to fetch"],
      [kind |-> "rejects", status |-> 0, isError |-> TRUE, message |-> ""],
      [kind |-> "rejects", status |-> 0, isError |-> FALSE, message |-> Undefined] }
ProbeKeys == {"intervals-key", "", NonLatin1Key}

\* the ambient key setting before extractPlanFromPDF and the caller's key
AmbientKeys == {Undefined, "", "server-key"}
CallerKeys == {"user-key", "server-key"}

\* workouts handed to formatWorkoutForAPI
APIWorkouts ==
    [id : {"workout_1"},
     date : {Undefined, DayStr(1), "2024-01-02T06:30:00"},
     type : WorkoutTypes \cup {Undefined, "yoga", "Run", "constructor"},
     name : {"Tempo"}, description : {"Run steady"},
     duration : {<<>>, <<0>>, <<30>>, <<90>>},
     distance : {<<>>, <<0>>, <<5>>, <<21>>},
     intensity : {"easy"}]

\* pace mappings as the PaceConfiguration panel leaves them: a filled-in
\* entry, an entry whose input was emptied again, values with and without a
\* pace unit
PaceMappings ==
    { EmptyMapping,
      [k \in {"Tempo", "Z2", "85%", "easy"} |->
          CASE k = "Tempo" -> "4:30/km"
            [] k = "Z2" -> "5:45 min/mi pace"
            [] k = "85%" -> "330W"
            [] k = "easy" -> "6:10"],
      [k \in {"Tempo", "Easy"} |-> IF k = "Tempo" THEN "" ELSE "5:00/km Pace"] }

FormatterLabels ==
    {Undefined, "", NotAString, "Tempo", "tempo", "Z2", "z3", "85%", "easy",
     "Easy", "EASY", " LT ", "Steady", "constructor"}

FormatIntensityArgs ==
    [intensity : FormatterLabels, workoutType : WorkoutTypes \cup {Undefined},
     paceMapping : PaceMappings]

\* segment lengths around the thresholds of both duration types
SegmentLengths == {1, 45, 59, 60, 61, 90, 120, 999, 1000, 1001, 1500, 5000}
DurationTypes == {"time", "distance", Undefined}
IntervalSamples ==
    { [repeat |-> r, duration |-> d, durationType |-> t, intensity |-> i,
       recovery |-> rec, recoveryIntensity |-> ri, ramp |-> ramp]
        : r \in {1, 4}, d \in SegmentLengths, t \in DurationTypes,
          i \in {"Tempo"}, rec \in {<<>>, <<0>>} \cup {<<v>> : v \in SegmentLengths},
          ri \in {Undefined, "Tempo"},
          ramp \in {<<>>, <<[start |-> "60%", end |-> "80%"]>>} }
FormatIntervalsArgs ==
    [intervals : {<<i>> : i \in IntervalSamples}, workoutType : {"run"},
     paceMapping : {EmptyMapping}]

\* descriptions with and without phase lines, in either order, with the
\* spellings and units the patterns name, and a record without description
FormatterDescriptions ==
    {Undefined, "", "Easy jog",
     "Warmup: 10 min easy\n4x400 hard\nCooldown: 5 min easy",
     "Cooldown: 1k jog\n \nWarm up 15 min",
     "warm-up: easy",
     "Warmup: 10 minutes easy",
     "Warmup: 5 min\nWARMUP 10 min Z1"}

FormatterBaseWorkouts ==
    [description : FormatterDescriptions, type : {"run", "bike"},
     intensity : {Undefined, "easy", "hard", NotAString},
     duration : {<<>>, <<0>>, <<45>>}, distance : {<<>>, <<0>>, <<8>>}]

FiveByOneK ==
    [repeat |-> 5, duration |-> 1000, durationType |-> "distance",
     intensity |-> "5K pace", recovery |-> <<200>>, recoveryIntensity |-> "Easy",
     ramp |-> <<>>]
TenMinutesEasy ==
    [repeat |-> 1, duration |-> 600, durationType |-> "time",
     intensity |-> "easy", recovery |-> <<90>>, recoveryIntensity |-> Undefined,
     ramp |-> <<>>]
FormatterIntervalLists ==
    { <<>>, <<FiveByOneK>>, <<TenMinutesEasy>>, <<FiveByOneK, TenMinutesEasy>>,
      <<[TenMinutesEasy EXCEPT !.intensity = NotAString]>>,
      <<[TenMinutesEasy EXCEPT !.intensity = Undefined,
                               !.durationType = Undefined]>> }

\* a 5 km easy run of thirty minutes, its description free of phase lines
SimpleRuns ==
    [description : {"", "Easy jog"}, type : {"run"}, intensity : {"easy"},
     duration : {<<30>>}, distance : {<<5>>}]

FormatterWorkouts ==
    FormatterBaseWorkouts \cup SimpleRuns
        \cup { w @@ [intervals |-> l] :
                  w \in FormatterBaseWorkouts, l \in FormatterIntervalLists }

FormatWorkoutArgs == [workout : FormatterWorkouts, paceMapping : PaceMappings]

\* the setup page while it is not mounted
SetupUnmounted == [mounted |-> FALSE]

\* ------------------------------------- specification of the pure functions
\* the page state while no page of the application is modelled
PageIdle ==
    /\ page = "none" /\ plan = <<>> /\ isUploading = FALSE
    /\ uploadProgress = 0 /\ pageError = Undefined /\ nextId = 0
    /\ batchPlan = <<>> /\ up = [pc |-> "idle"] /\ trace = <<>> /\ uncaught = FALSE
    /\ paceMapping = EmptyMapping /\ previewPaceMapping = EmptyMapping
    /\ lastAccepted = {}

pageVars ==
    <<page, plan, isUploading, uploadProgress, pageError,
      nextId, batchPlan, up, trace, uncaught,
      paceMapping, previewPaceMapping, lastAccepted>>

InitPure ==
    /\ PageIdle /\ setup = SetupUnmounted
    /\ input \in { [fn |-> "processJSONFile", arg |-> f] : f \in JSONFiles }
              \cup { [fn |-> "validateWorkout", arg |-> w] : w \in WorkoutCandidates }
              \cup { [fn |-> "validateTrainingPlan", arg |-> p] : p \in PlanCandidates }
              \cup { [fn |-> "formatWorkoutForAPI", arg |-> w] : w \in APIWorkouts }
              \cup { [fn |-> "formatWorkoutForIntervalsICU", arg |-> a]
                          : a \in FormatWorkoutArgs }
              \cup { [fn |-> "formatIntensity", arg |-> a] : a \in FormatIntensityArgs }
              \cup { [fn |-> "formatIntervals", arg |-> a] : a \in FormatIntervalsArgs }
              \cup { [fn |-> "validateIntervalsICUAPIKey",
                       arg |-> [apiKey |-> k, probe |-> o]]
                          : k \in ProbeKeys, o \in ProbeOutcomes }
              \cup { [fn |-> "extractPlanFromPDF",
                       arg |-> [originalKey |-> e, apiKey |-> k, outcome |-> o]]
                          : e \in AmbientKeys, k \in CallerKeys,
                            o \in ExtractionOutcomes }
    /\ output = <<>>

ProcessJSONFile ==
    /\ input.fn = "processJSONFile" /\ output = <<>>
    /\ output' = <<processJSONFile(input.arg)>>
    /\ UNCHANGED <<input, pageVars, setup>>

ValidateWorkout ==
    /\ input.fn = "validateWorkout" /\ output = <<>>
    /\ output' = <<validateWorkout(input.arg)>>
    /\ UNCHANGED <<input, pageVars, setup>>

ValidateTrainingPlan ==
    /\ input.fn = "validateTrainingPlan" /\ output = <<>>
    /\ output' = <<validateTrainingPlan(input.arg)>>
    /\ UNCHANGED <<input, pageVars, setup>>

ValidateIntervalsICUAPIKey ==
    /\ input.fn = "validateIntervalsICUAPIKey" /\ output = <<>>
    /\ output' = <<validateIntervalsICUAPIKey(input.arg.apiKey, input.arg.probe)>>
    /\ UNCHANGED <<input, pageVars, setup>>

\* the request body uploadSingleWorkout builds: [throws, body]
FormatWorkoutForAPI ==
    /\ input.fn = "formatWorkoutForAPI" /\ output = <<>>
    /\ LET formatted == formatWorkoutForAPI(input.arg)
       IN output' = <<[throws |-> formatted.throws,
                       body |-> IF formatted.throws THEN <<>>
                                ELSE <<JSONStringifyEvent(formatted.event[1])>>]>>
    /\ UNCHANGED <<input, pageVars, setup>>

\* the token or TypeErrorThrown
FormatIntensity ==
    /\ input.fn = "formatIntensity" /\ output = <<>>
    /\ output' = <<formatIntensity(input.arg.intensity, input.arg.workoutType,
                                   input.arg.paceMapping)>>
    /\ UNCHANGED <<input, pageVars, setup>>

\* the joined lines or TypeErrorThrown
FormatIntervals ==
    /\ input.fn = "formatIntervals" /\ output = <<>>
    /\ output' = <<formatIntervals(input.arg.intervals, input.arg.workoutType,
                                   input.arg.paceMapping)>>
    /\ UNCHANGED <<input, pageVars, setup>>

\* [throws, text]
FormatWorkoutForIntervalsICU ==
    /\ input.fn = "formatWorkoutForIntervalsICU" /\ output = <<>>
    /\ output' = <<formatWorkoutForIntervalsICU(input.arg.workout,
                                                input.arg.paceMapping)>>
    /\ UNCHANGED <<input, pageVars, setup>>

ExtractPlanFromPDF ==
    /\ input.fn = "extractPlanFromPDF" /\ output = <<>>
    /\ output' = <<extractPlanFromPDF(input.arg.originalKey, input.arg.apiKey,
                                      input.arg.outcome)>>
    /\ UNCHANGED <<input, pageVars, setup>>

NextPure ==
    \/ ExtractPlanFromPDF
    \/ ProcessJSONFile
    \/ FormatWorkoutForIntervalsICU
    \/ FormatIntensity
    \/ FormatIntervals
    \/ FormatWorkoutForAPI
    \/ ValidateWorkout
    \/ ValidateTrainingPlan
    \/ ValidateIntervalsICUAPIKey

vars == <<input, output, pageVars, setup>>
SpecPure == InitPure /\ [][NextPure]_vars

\* ------------------------------------------------------------ claims C8-C10
JSONDone == input.fn = "processJSONFile" /\ output # <<>>
\* the file reaches validateTrainingPlanJSON
FileParsed(file) ==
    file.isJSON /\ file.size <= MaxJSONSize /\ file.readable /\ file.parses
EntryInvalid(data, i) == ~validateWorkoutJSON(data.workouts[i], i - 1).valid
HasInvalidEntry(data) ==
    /\ data.isObject /\ IsArray(data.workouts)
    /\ \E i \in 1..Len(data.workouts) : EntryInvalid(data, i)
FirstInvalid(data) ==
    CHOOSE i \in 1..Len(data.workouts) :
        EntryInvalid(data, i) /\ \A j \in 1..(i - 1) : ~EntryInvalid(data, j)
\* name, startDate and endDate are non-empty strings and both dates match
\* YYYY-MM-DD
PlanFieldsWellFormed(data) ==
    /\ ~Falsy(data.name) /\ IsString(data.name)
    /\ ~Falsy(data.startDate) /\ IsString(data.startDate)
    /\ ~Falsy(data.endDate) /\ IsString(data.endDate)
    /\ DateRegexTest(data.startDate) /\ DateRegexTest(data.endDate)
\* the entry's first failing check is the type-membership check
UnrecognizedType(w) ==
    /\ w.isObject /\ ~Falsy(w.date) /\ IsString(w.date) /\ DateRegexTest(w.date)
    /\ ~Falsy(w.type) /\ IsString(w.type) /\ w.type \notin WorkoutTypes
\* the import failed with the error of the lowest-index invalid entry, which
\* names that entry's 0-based index and an unrecognized type's value
ReportsFirstInvalidEntry(data, r) ==
    LET m == FirstInvalid(data)
        w == data.workouts[m]
    IN /\ r.error = validateWorkoutJSON(w, m - 1).error
       /\ StartsWith(r.error, "Workout at index " \o ToString(m - 1) \o " ")
       /\ UnrecognizedType(w) => Contains(r.error, "invalid type: " \o w.type \o ".")

\* C8 as stated: whenever an entry of the workouts array is invalid, the JSON
\* import fails with the error of the lowest-index invalid entry (naming its
\* index and an unrecognized type's value) and returns no plan.
C8_AnyInvalidEntryReported ==
    (JSONDone /\ FileParsed(input.arg) /\ HasInvalidEntry(input.arg.data)) =>
        /\ ~output[1].success /\ output[1].data = <<>>
        /\ ReportsFirstInvalidEntry(input.arg.data, output[1])

\* C8 amended: whenever an entry of the workouts array is invalid, the JSON
\* import fails and returns no plan (no workout of the file is imported); when
\* in addition the plan-level fields (name, startDate, endDate) are well
\* formed, its single error is that of the lowest-index invalid entry, naming
\* that entry's index and, for an unrecognized type, the offending value.
C8_FirstInvalidEntryReported ==
    (JSONDone /\ FileParsed(input.arg) /\ HasInvalidEntry(input.arg.data)) =>
        /\ ~output[1].success /\ output[1].data = <<>>
        /\ PlanFieldsWellFormed(input.arg.data) =>
               ReportsFirstInvalidEntry(input.arg.data, output[1])

\* a file whose second entry has an unrecognized type, after a valid first
\* entry, has been rejected
C8_Witness ==
    /\ JSONDone /\ FileParsed(input.arg) /\ input.arg.data.isObject
    /\ PlanFieldsWellFormed(input.arg.data)
    /\ IsArray(input.arg.data.workouts) /\ Len(input.arg.data.workouts) = 2
    /\ input.arg.data.workouts[1] = RawValid
    /\ input.arg.data.workouts[2] = [RawValid EXCEPT !.type = "yoga"]
    /\ ~output[1].success
    /\ Contains(output[1].error, "index 1 has invalid type: yoga")

\* C9: every plan the JSON import returns as valid passes validateTrainingPlan.
C9_ImportedPlanPassesValidator ==
    (JSONDone /\ output[1].success) =>
        validateTrainingPlan(output[1].data[1]).valid

\* the rules of the validator, one name per rule
WorkoutRules ==
    {"id", "dateRequired", "dateFormat", "typeRequired", "typeEnum", "name",
     "description", "duration", "distance", "intensity"}
ViolatesWorkoutRule(w, r) ==
    CASE r = "id" -> Falsy(w.id)
      [] r = "dateRequired" -> Falsy(w.date)
      [] r = "dateFormat" -> ~Falsy(w.date) /\ ~isValidISODate(w.date)
      [] r = "typeRequired" -> Falsy(w.type)
      [] r = "typeEnum" -> ~Falsy(w.type) /\ w.type \notin WorkoutTypes
      [] r = "name" -> Falsy(w.name)
      [] r = "description" -> Falsy(w.description)
      [] r = "duration" -> w.duration # <<>> /\ w.duration[1] < 0
      [] r = "distance" -> w.distance # <<>> /\ w.distance[1] < 0
      [] r = "intensity" -> ~Falsy(w.intensity) /\ w.intensity \notin IntensityLevels
WorkoutViolations(w) == Cardinality({r \in WorkoutRules : ViolatesWorkoutRule(w, r)})
PlanRules ==
    {"id", "name", "startRequired", "startFormat", "endRequired", "endFormat",
     "workoutsRequired", "nonEmpty", "dateOrder"}
ViolatesPlanRule(p, r) ==
    CASE r = "id" -> Falsy(p.id)
      [] r = "name" -> Falsy(p.name)
      [] r = "startRequired" -> Falsy(p.startDate)
      [] r = "startFormat" -> ~Falsy(p.startDate) /\ ~isValidISODate(p.startDate)
      [] r = "endRequired" -> Falsy(p.endDate)
      [] r = "endFormat" -> ~Falsy(p.endDate) /\ ~isValidISODate(p.endDate)
      [] r = "workoutsRequired" -> ~IsArray(p.workouts)
      [] r = "nonEmpty" -> IsArray(p.workouts) /\ p.workouts = <<>>
      [] r = "dateOrder" -> /\ isValidISODate(p.startDate)
                            /\ isValidISODate(p.endDate)
                            /\ ParseDay(p.endDate) <= ParseDay(p.startDate)
PlanViolations(p) == Cardinality({r \in PlanRules : ViolatesPlanRule(p, r)})
RECURSIVE SumViolations(_)
SumViolations(workouts) ==
    IF workouts = <<>> THEN 0
    ELSE WorkoutViolations(Head(workouts)) + SumViolations(Tail(workouts))
PlanWorkouts(p) == IF IsArray(p.workouts) THEN p.workouts ELSE <<>>
InvalidWorkouts(p) ==
    Cardinality({i \in 1..Len(PlanWorkouts(p)) : WorkoutViolations(p.workouts[i]) > 0})

WorkoutValidated == input.fn = "validateWorkout" /\ output # <<>>
PlanValidated == input.fn = "validateTrainingPlan" /\ output # <<>>

\* C10 as stated: validateWorkout and validateTrainingPlan return one error
\* string per violated rule (k violated rules give k strings), and the result
\* is valid iff the list is empty.
C10_OneStringPerViolatedRule ==
    /\ WorkoutValidated =>
          /\ Len(output[1].errors) = WorkoutViolations(input.arg)
          /\ output[1].valid <=> output[1].errors = <<>>
    /\ PlanValidated =>
          /\ Len(output[1].errors) =
                 PlanViolations(input.arg) + SumViolations(PlanWorkouts(input.arg))
          /\ output[1].valid <=> output[1].errors = <<>>

\* C10 amended: validateWorkout returns one error string per violated rule;
\* validateTrainingPlan returns one string per violated plan-level rule plus
\* one string per invalid workout (that workout's errors joined into it);
\* neither short-circuits, and the result is valid iff the list is empty.
C10_OneStringPerRuleOrWorkout ==
    /\ WorkoutValidated =>
          /\ Len(output[1].errors) = WorkoutViolations(input.arg)
          /\ output[1].valid <=> output[1].errors = <<>>
    /\ PlanValidated =>
          /\ Len(output[1].errors) =
                 PlanViolations(input.arg) + InvalidWorkouts(input.arg)
          /\ \A i \in 1..Len(PlanWorkouts(input.arg)) :
                 WorkoutViolations(input.arg.workouts[i]) > 0 =>
                    \E k \in 1..Len(output[1].errors) :
                        output[1].errors[k] =
                            "Workout " \o ToString(i) \o ": "
                            \o Join(validateWorkout(input.arg.workouts[i]).errors, ", ")
          /\ output[1].valid <=> output[1].errors = <<>>

\* a workout violating three rules got three strings, and a plan violating a
\* plan-level rule with a workout violating two rules got two strings
C10_Witness ==
    \/ /\ WorkoutValidated /\ WorkoutViolations(input.arg) = 3
       /\ Len(output[1].errors) = 3
    \/ /\ PlanValidated /\ PlanViolations(input.arg) = 1
       /\ Len(PlanWorkouts(input.arg)) = 1
       /\ WorkoutViolations(input.arg.workouts[1]) = 2
       /\ Len(output[1].errors) = 2

\* ------------------------------------------------------ claims C11-C12
\* the rule class of an error string, numbered in the stated validation
\* order; 0 for the per-workout strings of a plan
RuleClass(e) ==
    IF StartsWith(e, "Workout ") /\ Contains(e, ": ") THEN 0
    ELSE IF e = "End date must be after start date" THEN 5
    ELSE IF e = "Plan must have at least one workout" THEN 6
    ELSE IF EndsWith(e, " is required") THEN 1
    ELSE IF StartsWith(e, "Invalid date format") THEN 2
    ELSE IF e \in {"Invalid start date format", "Invalid end date format"} THEN 2
    ELSE IF StartsWith(e, "Invalid workout type: ") THEN 3
    ELSE IF StartsWith(e, "Invalid intensity: ") THEN 3
    ELSE IF EndsWith(e, " must be positive") THEN 4
    ELSE 0
\* the classified errors come in non-decreasing class order
OrderedByRuleClass(errors) ==
    \A i, j \in 1..Len(errors) :
        (i < j /\ RuleClass(errors[i]) > 0 /\ RuleClass(errors[j]) > 0) =>
            RuleClass(errors[i]) <= RuleClass(errors[j])

\* C11: the errors validateWorkout and validateTrainingPlan return are
\* ordered by rule class: required fields, date format, enum membership,
\* non-negative ranges, date ordering, non-empty workout list.
C11_ErrorsOrderedByRuleClass ==
    (WorkoutValidated \/ PlanValidated) => OrderedByRuleClass(output[1].errors)

\* C12: validateTrainingPlan fails every plan whose well-formed end date is
\* equal to or earlier than its well-formed start date, with the error
\* 'End date must be after start date' in the list.
C12_EndNotAfterStartFails ==
    (/\ PlanValidated
     /\ isValidISODate(input.arg.startDate) /\ isValidISODate(input.arg.endDate)
     /\ ParseDay(input.arg.endDate) <= ParseDay(input.arg.startDate)) =>
        /\ ~output[1].valid
        /\ \E k \in 1..Len(output[1].errors) :
              output[1].errors[k] = "End date must be after start date"

\* an otherwise valid plan that ends on the day it starts was rejected with
\* that one error
C12_Witness ==
    /\ PlanValidated
    /\ input.arg.startDate = DayStr(1) /\ input.arg.endDate = DayStr(1)
    /\ output[1].errors = <<"End date must be after start date">>

\* ------------------------------------------------------------ claim C13
KeyValidated == input.fn = "validateIntervalsICUAPIKey" /\ output # <<>>
\* the probe request was sent and answered with a status
ProbeAnswered ==
    /\ ~createAuthHeader(input.arg.apiKey).throws
    /\ input.arg.probe.kind = "response"
\* the probe request was sent and failed without a response
ProbeRejected ==
    /\ ~createAuthHeader(input.arg.apiKey).throws
    /\ input.arg.probe.kind = "rejects"

\* C13: validateIntervalsICUAPIKey never throws; 401 and 403 give the failure
\* 'Invalid API key', any other non-success status a failure naming the
\* status, an exception a failure carrying its message (or 'Unknown error
\* occurred'), and only a success status gives success.
C13_ProbeOutcomeClassified ==
    KeyValidated =>
        LET r == output[1]
            status == input.arg.probe.status
        IN /\ ~r.threw
           /\ (ProbeAnswered /\ status \in {401, 403}) =>
                 ~r.success /\ r.error = "Invalid API key"
           /\ (ProbeAnswered /\ status \notin {401, 403} /\ status \notin 200..299) =>
                 /\ ~r.success /\ r.error # "Invalid API key"
                 /\ EndsWith(r.error, "status " \o ToString(status))
           /\ ProbeRejected =>
                 /\ ~r.success
                 /\ r.error = IF input.arg.probe.isError THEN input.arg.probe.message
                              ELSE "Unknown error occurred"
           /\ r.success <=> (ProbeAnswered /\ status \in 200..299)

\* a probe answered 403 was classified as an invalid key
C13_Witness ==
    /\ KeyValidated /\ ProbeAnswered /\ input.arg.probe.status = 403
    /\ output[1] = [success |-> FALSE, threw |-> FALSE, error |-> "Invalid API key"]

\* ------------------------------------------------------ claims C14-C15
\* formatWorkoutForAPI built a request body
RequestBuilt ==
    input.fn = "formatWorkoutForAPI" /\ output # <<>> /\ ~output[1].throws

\* C14: run, bike, swim and strength are sent as WORKOUT entries of type Run,
\* Ride, Swim and WeightTraining, every unrecognized discipline as a WORKOUT
\* entry of type Run, and rest as a NOTE entry with no type.
C14_DisciplineMapped ==
    RequestBuilt =>
        LET type == input.arg.type
            body == output[1].body[1]
        IN IF type = "rest"
           THEN body.category = "NOTE" /\ body.type = Undefined
           ELSE /\ body.category = "WORKOUT"
                /\ body.type = CASE type = "run" -> "Run"
                                 [] type = "bike" -> "Ride"
                                 [] type = "swim" -> "Swim"
                                 [] type = "strength" -> "WeightTraining"
                                 [] OTHER -> "Run"

\* C15 as stated: a workout that has a duration (distance) is sent with
\* moving_time = duration * 60 (distance = distance * 1000), and the field is
\* left out only when the workout has no such value.
C15_EveryValueConverted ==
    RequestBuilt =>
        LET body == output[1].body[1]
        IN /\ body.moving_time = IF input.arg.duration = <<>> THEN <<>>
                                 ELSE <<input.arg.duration[1] * 60>>
           /\ body.distance = IF input.arg.distance = <<>> THEN <<>>
                              ELSE <<input.arg.distance[1] * 1000>>

\* C15 amended: a workout with a non-zero duration (distance) is sent with
\* moving_time = duration * 60 (distance = distance * 1000); the field is
\* left out when the workout has no such value or the value is 0.
C15_NonZeroValueConverted ==
    RequestBuilt =>
        LET body == output[1].body[1]
            absent(v) == v = <<>> \/ v[1] = 0
        IN /\ body.moving_time = IF absent(input.arg.duration) THEN <<>>
                                 ELSE <<input.arg.duration[1] * 60>>
           /\ body.distance = IF absent(input.arg.distance) THEN <<>>
                              ELSE <<input.arg.distance[1] * 1000>>

\* a workout of 90 minutes and 21 km was sent as 5400 s and 21000 m
C15_Witness ==
    /\ RequestBuilt
    /\ input.arg.duration = <<90>> /\ input.arg.distance = <<21>>
    /\ output[1].body[1].moving_time = <<5400>>
    /\ output[1].body[1].distance = <<21000>>

\* ------------------------------------------------------------ claim C16
FormatterRan == input.fn = "formatWorkoutForIntervalsICU" /\ output # <<>>

\* a record that conforms to the Workout type where the formatter reads it
WorkoutTyped(workout) ==
    /\ IsString(workout.description)
    /\ workout.intensity = Undefined \/ IsString(workout.intensity)

\* the lines of the text without its Warmup section, its Cooldown section
\* and its Main Set header
MainSetLines(text) ==
    LET lines == SplitLines(text)
        afterWarmup == IF Len(lines) >= 3 /\ lines[1] = "Warmup"
                       THEN SubSeq(lines, 4, Len(lines)) ELSE lines
        n == Len(afterWarmup)
        beforeCooldown == IF n >= 3 /\ afterWarmup[n - 1] = "Cooldown"
                          THEN SubSeq(afterWarmup, 1, n - 3) ELSE afterWarmup
    IN IF beforeCooldown # <<>> /\ beforeCooldown[1] = "Main Set"
       THEN Tail(beforeCooldown) ELSE beforeCooldown

\* the one line C16 expects of a workout without intervals
SynthesizedLine(workout, mapping, distancePresent) ==
    "- "
    \o (IF distancePresent
        THEN formatDuration(workout.distance[1] * 1000, "distance")
        ELSE formatDuration(workout.duration[1] * 60, "time"))
    \o " "
    \o formatIntensity(IF workout.intensity \in {Undefined, ""} THEN "Easy"
                       ELSE workout.intensity,
                       workout.type, mapping)

IntervalsFormatted == input.fn = "formatIntervals" /\ output # <<>>

\* the duration token of a "- <duration> <rest>" line
DurationToken(line) ==
    LET body == From(line, 3)
        stop == CHOOSE i \in 1..(Len(body) + 1) :
                    /\ i = Len(body) + 1 \/ CharAt(body, i) = " "
                    /\ \A j \in 1..(i - 1) : CharAt(body, j) # " "
    IN SubSeq(body, 1, stop - 1)

\* the rendering C17 states for a value of a duration type
StatedDuration(value, durationType) ==
    IF durationType = "distance"
    THEN IF value >= 1000 THEN ToFixed1(value) \o "km"
         ELSE ToString(value) \o "m"
    ELSE IF value >= 60
         THEN ToString(value \div 60) \o "m"
              \o (IF value % 60 # 0 THEN ToString(value % 60) \o "s" ELSE "")
         ELSE ToString(value) \o "s"

\* C17: a distance of at least 1000 is rendered in kilometres with one
\* decimal and a shorter one in whole metres, a time of at least 60 in minutes
\* plus the non-zero leftover seconds and a shorter one in whole seconds, for
\* the work segment and for the recovery segment alike; equal values of one
\* duration type give the same string in both.
C17_DurationRendering ==
    IntervalsFormatted
    => LET interval == input.arg.intervals[1]
           lines == SplitLines(output[1])
           w == IF interval.repeat > 1 THEN 2 ELSE 1
           typed == interval.durationType \in {"time", "distance"}
           rendered == interval.recovery # <<>> /\ interval.recovery[1] # 0
       IN /\ Len(lines) = IF rendered THEN w + 1 ELSE w
          /\ typed => DurationToken(lines[w])
                        = StatedDuration(interval.duration, interval.durationType)
          /\ (rendered /\ typed)
                => DurationToken(lines[w + 1])
                     = StatedDuration(interval.recovery[1], interval.durationType)
          /\ interval.recovery = <<interval.duration>>
                => DurationToken(lines[w + 1]) = DurationToken(lines[w])

\* work and recovery of exactly 1000 m are both rendered in kilometres
C17_Witness ==
    /\ IntervalsFormatted
    /\ input.arg.intervals[1].duration = 1000
    /\ input.arg.intervals[1].recovery = <<1000>>
    /\ input.arg.intervals[1].durationType = "distance"
    /\ output[1] = "- 1.0km Z3\n- 1.0km Easy pace"

\* ------------------------------------------------------------ claim C18
IntensityFormatted == input.fn = "formatIntensity" /\ output # <<>>

\* the mapped value, with ' Pace' appended when it names a pace without
\* saying so
ValueAsPace(value) ==
    IF /\ \/ Contains(value, "/km") \/ Contains(value, "/mi")
          \/ StartsWithClockTime(value)
       /\ ~Contains(ToLowerCase(value), "pace")
    THEN value \o " Pace"
    ELSE value

\* C18 as stated: a label that is a key of the pace mapping is rendered as
\* the mapped value, ' Pace' appended when the value contains '/km' or '/mi'
\* or starts with digits:digits and does not contain 'pace'; the zone-token,
\* percent and lexicon rules are not consulted for it.
C18_MappedValueUsed ==
    (IntensityFormatted /\ input.arg.intensity \in DOMAIN input.arg.paceMapping)
    => output[1] = ValueAsPace(input.arg.paceMapping[input.arg.intensity])

\* C18 amended: the same for a key whose mapped value is not empty.
C18_NonEmptyMappedValueUsed ==
    (IntensityFormatted /\ input.arg.intensity \in DOMAIN input.arg.paceMapping
        /\ input.arg.paceMapping[input.arg.intensity] # "")
    => output[1] = ValueAsPace(input.arg.paceMapping[input.arg.intensity])

\* the key Z2 is rendered by its entry, not as the zone token it also is
C18_Witness ==
    /\ IntensityFormatted
    /\ input.arg.intensity = "Z2"
    /\ "Z2" \in DOMAIN input.arg.paceMapping
    /\ output[1] = "5:45 min/mi pace"

\* ------------------------------------------------------------ claim C19
\* the formatter built sections (it did not return the raw description) and
\* did not fault
SectionsBuilt ==
    /\ FormatterRan /\ ~output[1].throws
    /\ \/ Len(IntervalsOf(input.arg.workout)) > 0
       \/ ~FalsyNum(input.arg.workout.distance)
       \/ ~FalsyNum(input.arg.workout.duration)

\* the description has a line that opens with one of the words and goes on
HasPhaseLine(description, words) ==
    \E k \in 1..Len(SplitLines(description)) :
        PhaseMatch(Trim(SplitLines(description)[k]), words) # Undefined

\* C19: of a workout rendered in sections, the Warmup section is there iff
\* the description has a warmup line and comes first, the Cooldown section is
\* there iff the description has a cooldown line and comes last, whatever the
\* order of the two lines in the description, and the main set between them
\* carries the header 'Main Set' iff there is more than one interval or a
\* warmup or cooldown line.
C19_SectionOrderAndHeaders ==
    SectionsBuilt
    => LET workout == input.arg.workout
           lines == SplitLines(output[1].text)
           n == Len(lines)
           at(header) == {i \in 1..n : lines[i] = header}
           hasWarmup == HasPhaseLine(workout.description, WarmupWords)
           hasCooldown == HasPhaseLine(workout.description, CooldownWords)
           count == IF Len(IntervalsOf(workout)) = 0 THEN 1
                    ELSE Len(IntervalsOf(workout))
       IN /\ at("Warmup") = IF hasWarmup THEN {1} ELSE {}
          /\ at("Cooldown") = IF hasCooldown THEN {n - 1} ELSE {}
          /\ at("Main Set") = IF hasWarmup \/ hasCooldown \/ count > 1
                              THEN {IF hasWarmup THEN 4 ELSE 1}
                              ELSE {}
          /\ \A i \in at("Warmup"), j \in at("Cooldown") : i + 3 < j

\* the cooldown line precedes the warmup line in the description and the
\* sections still come out as Warmup, Main Set, Cooldown
C19_Witness ==
    /\ SectionsBuilt
    /\ input.arg.workout.description = "Cooldown: 1k jog\n \nWarm up 15 min"
    /\ output[1].text
         = "Warmup\n- 15m Easy pace\n\nMain Set\n5x\n- 1.0km 5K pace\n- 200m Easy pace\n\nCooldown\n- 1km jog"

\* ------------------------------------------------------------ claim C20
\* the label is 'easy' in some letter case
IsEasyLabel(label) == IsString(label) /\ ToLowerCase(label) = "easy"

\* what C20 states for the label: 'Easy pace' for runs, 'Z2' otherwise
EasyToken(workoutType) == IF workoutType = "run" THEN "Easy pace" ELSE "Z2"

\* the text of the last line of the description that opens with one of the
\* words, or Undefined
LastPhaseText(description, words) ==
    LET lines == SplitLines(description)
        hits == {k \in 1..Len(lines) : PhaseMatch(Trim(lines[k]), words) # Undefined}
    IN IF hits = {} THEN Undefined
       ELSE PhaseMatch(Trim(lines[CHOOSE k \in hits : \A h \in hits : h <= k]), words)

\* the intensity label of a phase text: what is left of it without its
\* duration or distance
PhaseLabel(text) ==
    IF FirstTimeMatch(text).found
    THEN Trim(WithoutMatch(text, FirstTimeMatch(text)))
    ELSE IF FirstDistanceMatch(text).found
    THEN Trim(WithoutMatch(text, FirstDistanceMatch(text)))
    ELSE Trim(text)

\* every work segment labelled 'easy' is rendered with the token
EasyInWorkSegments ==
    LET workout == input.arg.workout
        lines == SplitLines(output[1].text)
    IN \A k \in 1..Len(IntervalsToFormat(workout)) :
          LET interval == IntervalsToFormat(workout)[k]
          IN (IsEasyLabel(interval.intensity) /\ interval.ramp = <<>>)
             => \E i \in 1..Len(lines) :
                   lines[i] = "- " \o formatDuration(interval.duration,
                                                     interval.durationType)
                              \o " " \o EasyToken(workout.type)

\* every recovery segment labelled 'easy' is rendered with the token
EasyInRecoverySegments ==
    LET workout == input.arg.workout
        lines == SplitLines(output[1].text)
    IN \A k \in 1..Len(IntervalsToFormat(workout)) :
          LET interval == IntervalsToFormat(workout)[k]
          IN (~FalsyNum(interval.recovery) /\ IsEasyLabel(interval.recoveryIntensity))
             => \E i \in 1..Len(lines) :
                   lines[i] = "- " \o formatRecoveryDuration(interval.recovery[1],
                                                             interval.durationType)
                              \o " " \o EasyToken(workout.type)

\* the warmup and the cooldown line labelled 'easy' are rendered with the token
EasyInPhaseLines ==
    LET workout == input.arg.workout
        lines == SplitLines(output[1].text)
        warmupText == LastPhaseText(workout.description, WarmupWords)
        cooldownText == LastPhaseText(workout.description, CooldownWords)
    IN /\ (warmupText # Undefined /\ IsEasyLabel(PhaseLabel(warmupText)))
             => EndsWith(lines[2], " " \o EasyToken(workout.type))
       /\ (cooldownText # Undefined /\ IsEasyLabel(PhaseLabel(cooldownText)))
             => EndsWith(lines[Len(lines)], " " \o EasyToken(workout.type))

\* C20: with no pace-mapping entry, the label 'easy' in any letter case is
\* rendered 'Easy pace' in every segment of a run workout and 'Z2' in every
\* segment of a workout of another discipline: work segments, recovery
\* segments and the warmup and cooldown lines.
C20_EasyByDiscipline ==
    (SectionsBuilt /\ input.arg.paceMapping = EmptyMapping)
    => EasyInWorkSegments /\ EasyInRecoverySegments /\ EasyInPhaseLines

\* ------------------------------------------------------------ claim C21
\* C21: formatWorkoutForIntervalsICU never throws: for every workout record,
\* with an absent or malformed description, intensity, interval intensity
\* or durationType included, it returns a string.
C21_FormatterNeverThrows == FormatterRan => ~output[1].throws

\* ------------------------------------------------------------ claim C22
\* the formatter was given a simple run and the empty pace mapping
SimpleRunFormatted ==
    /\ FormatterRan
    /\ input.arg.workout \in SimpleRuns
    /\ input.arg.paceMapping = EmptyMapping

\* C22 as stated: the simple run {type 'run', duration 30, distance 5,
\* intensity 'easy'} is formatted with the empty pace mapping as the single
\* line `5.0km Easy pace`, with no section header.
C22_SingleLine ==
    SimpleRunFormatted
    => output[1] = [throws |-> FALSE, text |-> "5.0km Easy pace"]

\* C22 amended: the single line carries the list marker of every segment
\* line: the result is `- 5.0km Easy pace`, with no Warmup section, no
\* Cooldown section and no 'Main Set' header.
C22_SingleMarkedLine ==
    SimpleRunFormatted
    => output[1] = [throws |-> FALSE, text |-> "- 5.0km Easy pace"]

C22_Witness ==
    /\ SimpleRunFormatted
    /\ input.arg.workout.description = "Easy jog"
    /\ SplitLines(output[1].text) = <<"- 5.0km Easy pace">>

\* -------------------------------------------------- inputs of the pages
NoPlan == [none |-> TRUE]
UpIdle == [pc |-> "idle"]

\* workouts as the language model may return them (identifiers come later)
ExtractedRun ==
    [id |-> Undefined, date |-> DayStr(1), type |-> "run", name |-> "Tempo",
     description |-> "Run steady", duration |-> <<30>>, distance |-> <<>>,
     intensity |-> "easy"]
\* the kinds of workout of a document, in the order in which it lists them
ExtractedKinds ==
    << ExtractedRun,
       ExtractedRun @@ [intervals |-> <<TenMinutesEasy>>],
       [ExtractedRun EXCEPT !.description = Undefined],
       [ExtractedRun EXCEPT !.date = Undefined, !.type = "yoga", !.name = "Yoga"] >>
ExtractedWorkouts == {ExtractedKinds[k] : k \in 1..Len(ExtractedKinds)}
KindOf(workout) == CHOOSE k \in 1..Len(ExtractedKinds) : ExtractedKinds[k] = workout
ExtractedData ==
    [name : {"Plan"}, startDate : {DayStr(1)},
     endDate : {Undefined, DayStr(2)},
     workouts : {q \in SeqsUpTo(ExtractedWorkouts, MaxWorkouts) :
                    \A a, b \in 1..Len(q) : a < b => KindOf(q[a]) < KindOf(q[b])}]

\* what a row of the editor can change: [field, value]
WorkoutEdits == { <<"description", "Easy jog">> }
PlanNames == {"My plan"}
\* the date input of the plan header: a later day, or the emptied input
StartDateInputs == {DayStr(2), ""}
\* the day on which the page is used
Todays == {DayStr(1)}
\* what the user may type into the pace input of a label
PaceLabels == {"easy"}
PaceValues == {"4:30/km"}
\* what localStorage may hold under the intervals.icu key
StoredKeys == {Undefined, "intervals-key"}

\* ------------------------------------------------------------ the pages
Init ==
    /\ input = <<>> /\ output = <<>>
    /\ page = "index" /\ plan = NoPlan
    /\ isUploading = FALSE /\ uploadProgress = 0 /\ pageError = Undefined
    /\ nextId = 0
    /\ batchPlan = NoPlan /\ up = UpIdle /\ trace = <<>> /\ uncaught = FALSE
    /\ paceMapping = EmptyMapping /\ previewPaceMapping = EmptyMapping
    /\ lastAccepted = {}
    /\ setup = SetupUnmounted

uploadVars == <<batchPlan, up, trace, uncaught>>
\* the pace mapping of the page and the one of the PlanPreview component
paceVars == <<paceMapping, previewPaceMapping>>

\* PlanPreview mounts (or is gone): its state is the initial one
PlanPreviewFresh == previewPaceMapping' = EmptyMapping

\* IndexPage.handleFileSelected, extraction succeeded: navigate to /preview,
\* where PreviewPage mounts with the plan of the route
ImportPDF(extractedData) ==
    /\ page = "index"
    /\ page' = "preview"
    /\ plan' = ExtractedPlan(extractedData, "plan.pdf")
    /\ nextId' = Len(extractedData.workouts)
    /\ isUploading' = FALSE /\ uploadProgress' = 0 /\ pageError' = Undefined
    /\ paceMapping' = EmptyMapping /\ PlanPreviewFresh
    /\ lastAccepted' = {}
    /\ UNCHANGED <<setup, input, output, uploadVars>>

\* IndexPage.handleFileSelected, processing or extraction failed
ImportFails ==
    /\ page = "index"
    /\ pageError' = "Failed to process PDF"
    /\ UNCHANGED <<setup, input, output, page, plan, isUploading,
                   uploadProgress, nextId, uploadVars, paceVars, lastAccepted>>

\* the preview's "Start Over" button
StartOver ==
    /\ page = "preview" /\ ~isUploading
    /\ page' = "index" /\ plan' = NoPlan
    /\ uploadProgress' = 0 /\ pageError' = Undefined /\ nextId' = 0
    /\ paceMapping' = EmptyMapping /\ PlanPreviewFresh
    /\ lastAccepted' = {}
    /\ UNCHANGED <<setup, input, output, isUploading, uploadVars>>

\* the success page's button back to the index page
UploadAnother ==
    /\ page = "success"
    /\ page' = "index"
    /\ UNCHANGED <<setup, input, output, plan, isUploading, uploadProgress,
                   pageError, nextId, uploadVars, paceVars, lastAccepted>>

\* an editor and an Upload button that stay on the page during an upload
EditorShown_WhileUploading == page = "preview"

\* the PlanPreview editor and the action bar are rendered
EditorShown == page = "preview" /\ ~isUploading

onPlanUpdate(newPlan) ==
    /\ plan' = newPlan
    /\ UNCHANGED <<setup, input, output, page, isUploading, uploadProgress,
                   pageError, uploadVars, paceVars, lastAccepted>>

\* WorkoutRow.handleFieldChange on row k, then PlanPreview.handleWorkoutUpdate
handleWorkoutUpdate(k, edit) ==
    /\ EditorShown /\ k \in 1..Len(plan.workouts)
    /\ LET updatedWorkout == [plan.workouts[k] EXCEPT ![edit[1]] = edit[2]]
           updatedWorkouts ==
               [j \in 1..Len(plan.workouts) |->
                   IF plan.workouts[j].id = updatedWorkout.id THEN updatedWorkout
                   ELSE plan.workouts[j]]
       IN onPlanUpdate([plan EXCEPT !.workouts = updatedWorkouts])
    /\ UNCHANGED nextId

\* plan.workouts.filter(w => w.id !== id)
RECURSIVE FilterOutId(_, _)
FilterOutId(workouts, id) ==
    IF workouts = <<>> THEN <<>>
    ELSE IF Head(workouts).id # id
         THEN <<Head(workouts)>> \o FilterOutId(Tail(workouts), id)
         ELSE FilterOutId(Tail(workouts), id)

handleWorkoutDelete(k) ==
    /\ EditorShown /\ k \in 1..Len(plan.workouts)
    /\ onPlanUpdate([plan EXCEPT !.workouts = FilterOutId(@, plan.workouts[k].id)])
    /\ UNCHANGED nextId

\* the new workout is dated the day after the last one (after `today` when
\* there is none); toISOString faults on an Invalid Date before any update
handleAddWorkout(today, zone) ==
    /\ EditorShown
    /\ Len(plan.workouts) < MaxWorkouts /\ nextId < MaxWorkouts
    /\ LET n == Len(plan.workouts)
           lastDate == IF n > 0 THEN ParseDay(plan.workouts[n].date)
                       ELSE ParseDay(today)
           nextDate == SetDate(lastDate, 1, zone)
           newWorkout ==
               [id |-> generateWorkoutId(nextId + 1), date |-> DayStr(nextDate),
                type |-> "run", name |-> "New Workout",
                description |-> "Add workout details here",
                duration |-> <<>>, distance |-> <<>>, intensity |-> Undefined]
       IN /\ lastDate # NaN /\ nextDate <= Len(Calendar)
          /\ onPlanUpdate([plan EXCEPT !.workouts = Append(@, newWorkout)])
    /\ nextId' = nextId + 1

handlePlanNameChange(name) ==
    /\ EditorShown
    /\ onPlanUpdate([plan EXCEPT !.name = name])
    /\ UNCHANGED nextId

\* the latest of a non-empty list of date strings
LatestDate(dates) ==
    CHOOSE d \in {dates[j] : j \in 1..Len(dates)} :
        \A j \in 1..Len(dates) : ParseDay(dates[j]) <= ParseDay(d)

\* every workout moves by the day offset between the old and the new start;
\* the end date becomes the latest workout date.  With workouts present the
\* handler faults in toISOString, before any update, when the offset or a
\* workout's date is not a date.
handleStartDateChange(newStartDate, zone) ==
    /\ EditorShown
    /\ LET daysDiff == ParseDay(newStartDate) - ParseDay(plan.startDate)
           n == Len(plan.workouts)
           updatedWorkouts ==
               [j \in 1..n |->
                   [plan.workouts[j] EXCEPT
                       !.date = DayStr(SetDate(ParseDay(plan.workouts[j].date),
                                               daysDiff, zone))]]
           newEndDate ==
               IF n > 0 THEN LatestDate([j \in 1..n |-> updatedWorkouts[j].date])
               ELSE newStartDate
       IN /\ n > 0 => /\ ParseDay(newStartDate) # NaN
                      /\ ParseDay(plan.startDate) # NaN
                      /\ \A j \in 1..n :
                            /\ ParseDay(plan.workouts[j].date) # NaN
                            /\ SetDate(ParseDay(plan.workouts[j].date), daysDiff, zone)
                                  \in 1..Len(Calendar)
          /\ onPlanUpdate([plan EXCEPT !.startDate = newStartDate,
                                       !.endDate = newEndDate,
                                       !.workouts = updatedWorkouts])
    /\ UNCHANGED nextId

\* the labels the PaceConfiguration dialog lists: the truthy intensities of
\* the workouts and of their intervals
DialogIntensities(workouts) ==
    UNION { {workouts[k].intensity}
              \cup {IntervalsOf(workouts[k])[j].intensity :
                       j \in 1..Len(IntervalsOf(workouts[k]))}
              \cup {IntervalsOf(workouts[k])[j].recoveryIntensity :
                       j \in 1..Len(IntervalsOf(workouts[k]))}
            : k \in 1..Len(workouts) } \ {Undefined, ""}

\* {...paceMapping, [intensity]: value}
WithEntry(mapping, intensity, value) ==
    [k \in DOMAIN mapping \cup {intensity} |->
        IF k = intensity THEN value ELSE mapping[k]]

\* the user types into the input of one listed label of the dialog:
\* PaceConfiguration.handleMappingChange, then
\* PlanPreview.handlePaceMappingChange; the dialog's mapping is the one
\* PlanPreview holds
handleMappingChange(intensity, value) ==
    /\ EditorShown
    /\ intensity \in DialogIntensities(plan.workouts)
    /\ previewPaceMapping' = WithEntry(previewPaceMapping, intensity, value)
    /\ paceMapping' = WithEntry(previewPaceMapping, intensity, value)
    /\ UNCHANGED <<setup, input, output, page, plan, isUploading, uploadProgress,
                   pageError, nextId, uploadVars, lastAccepted>>

\* PreviewPage.handleUpload up to its first suspension; apiKey is what
\* getAPIKey("intervals") reads from localStorage (Undefined for null)
handleUpload(apiKey) ==
    /\ EditorShown
    /\ LET n == Len(plan.workouts)
           formatFaults == \E k \in 1..n : formatWorkoutForIntervalsICU(plan.workouts[k], paceMapping).throws
           planToUpload ==
               [k \in 1..n |->
                   [plan.workouts[k] EXCEPT
                       !.description = formatWorkoutForIntervalsICU(plan.workouts[k], paceMapping).text]]
           u0 == [pc |-> "returned", i |-> 1, workouts |-> planToUpload,
                  succeeded |-> 0, failed |-> 0, errors |-> <<>>]
           started == IF n = 0 THEN [up |-> u0, trace |-> <<>>, progress |-> 0]
                      ELSE Attempt(u0, <<>>, 0)
       IN IF formatFaults
          THEN \* the logging loop runs outside the try block
               /\ pageError' = Undefined /\ isUploading' = TRUE /\ uploadProgress' = 0
               /\ uncaught' = TRUE
               /\ PlanPreviewFresh
               /\ UNCHANGED <<batchPlan, up, trace>>
          ELSE IF Falsy(apiKey)
          THEN /\ pageError' = "intervals.icu API key not found"
               /\ isUploading' = FALSE /\ uploadProgress' = 0
               /\ UNCHANGED <<uploadVars, previewPaceMapping>>
          ELSE /\ pageError' = Undefined /\ isUploading' = TRUE
               /\ uploadProgress' = started.progress
               /\ batchPlan' = plan /\ up' = started.up /\ trace' = started.trace
               /\ PlanPreviewFresh
               /\ UNCHANGED uncaught
    /\ UNCHANGED <<setup, input, output, page, plan, nextId, paceMapping, lastAccepted>>

\* a loop that issues the next request as soon as the last one settled
FetchSettles_NoDelay(outcome) ==
    /\ up.pc = "fetch"
    /\ LET settled == Settle(up, trace, outcome)
           next == IF settled.up.pc = "delay"
                   THEN Attempt([settled.up EXCEPT !.i = @ + 1], settled.trace,
                                settled.progress)
                   ELSE settled
       IN up' = next.up /\ trace' = next.trace /\ uploadProgress' = next.progress
    /\ UNCHANGED <<setup, input, output, page, plan, isUploading, pageError, nextId, batchPlan, uncaught, paceVars, lastAccepted>>

\* the request in flight settles; the loop counts it, reports progress and
\* either starts the 200 ms timer or returns
FetchSettles(outcome) ==
    /\ up.pc = "fetch"
    /\ LET next == Settle(up, trace, outcome)
       IN up' = next.up /\ trace' = next.trace /\ uploadProgress' = next.progress
    /\ UNCHANGED <<setup, input, output, page, plan, isUploading, pageError, nextId, batchPlan, uncaught, paceVars, lastAccepted>>

\* the 200 ms timer fires; the loop goes on with the next workout
DelayElapsed ==
    /\ up.pc = "delay"
    /\ LET next == Attempt([up EXCEPT !.i = @ + 1],
                           Append(trace, [e |-> "delay", i |-> up.i]), uploadProgress)
       IN up' = next.up /\ trace' = next.trace /\ uploadProgress' = next.progress
    /\ UNCHANGED <<setup, input, output, page, plan, isUploading, pageError, nextId, batchPlan, uncaught, paceVars, lastAccepted>>

\* the external ids of the requests of a batch that the remote side accepted
AcceptedIds(tr) ==
    {tr[j].body.external_id :
        j \in {h \in 1..Len(tr) :
                 /\ tr[h].e = "request"
                 /\ \E m \in 1..Len(tr) :
                       tr[m].e = "outcome" /\ tr[m].i = tr[h].i /\ tr[m].success}}

\* handleUpload resumes with uploadWorkoutPlan's result: the success page, or
\* the error shown on the preview
UploadSettled ==
    /\ up.pc = "returned"
    /\ LET result == UploadResult(up)
       IN IF ~result.success
          THEN /\ pageError' = result.error /\ isUploading' = FALSE
               /\ lastAccepted' = AcceptedIds(trace)
               /\ UNCHANGED <<page, plan, uploadProgress, nextId, paceMapping>>
          ELSE /\ page' = "success" /\ plan' = NoPlan
               /\ isUploading' = FALSE /\ uploadProgress' = 0 /\ nextId' = 0
               /\ paceMapping' = EmptyMapping /\ lastAccepted' = {}
               /\ UNCHANGED pageError
    /\ batchPlan' = NoPlan /\ up' = UpIdle /\ trace' = <<>>
    /\ UNCHANGED <<setup, input, output, uncaught, previewPaceMapping>>

Next ==
    \/ \E extractedData \in ExtractedData : ImportPDF(extractedData)
    \/ ImportFails
    \/ StartOver
    \/ UploadAnother
    \/ \E k \in 1..MaxWorkouts, edit \in WorkoutEdits : handleWorkoutUpdate(k, edit)
    \/ \E k \in 1..MaxWorkouts : handleWorkoutDelete(k)
    \/ \E today \in Todays, zone \in LocalZones : handleAddWorkout(today, zone)
    \/ \E name \in PlanNames : handlePlanNameChange(name)
    \/ \E newStartDate \in StartDateInputs, zone \in LocalZones :
          handleStartDateChange(newStartDate, zone)
    \/ \E intensity \in PaceLabels, value \in PaceValues :
          handleMappingChange(intensity, value)
    \/ \E apiKey \in StoredKeys : handleUpload(apiKey)
    \/ \E outcome \in FetchOutcomes : FetchSettles(outcome)
    \/ DelayElapsed
    \/ UploadSettled

Spec == Init /\ [][Next]_vars

\* --------------------------------------------------------- the setup page
Services == {"intervals", "googleai"}
\* what getAPIKey finds when the page mounts (null: nothing stored)
Null == "<null>"
StoredAPIKeys == {Null, "", "stored-key"}
\* what the user can have in a key field
KeyTexts == {"", "intervals-key", NonLatin1Key}
\* the three values of intervalsValid / googleAIValid
ValidNull == "null"
ValidTrue == "true"
ValidFalse == "false"

\* SetupPage after its useEffect ran over the stored keys: per service the
\* field's text (key), its status (valid), isTesting, the key the running test
\* captured (inFlight), localStorage, and the keys whose validation succeeded
SetupMounted(stored) ==
    [mounted |-> TRUE,
     key |-> [service \in Services |->
                IF stored[service] \in {Null, ""} THEN "" ELSE stored[service]],
     valid |-> [service \in Services |->
                  IF stored[service] \in {Null, ""} THEN ValidNull ELSE ValidTrue],
     isTesting |-> [service \in Services |-> FALSE],
     inFlight |-> [service \in Services |-> Null],
     localStorage |-> stored,
     loaded |-> stored,
     validated |-> [service \in Services |-> {}]]

InitSetup ==
    /\ PageIdle /\ input = <<>> /\ output = <<>>
    /\ setup \in {SetupMounted(stored) : stored \in [Services -> StoredAPIKeys]}

\* onChange of a key field
KeyTyped(service, text) ==
    /\ setup.mounted /\ text # setup.key[service]
    /\ setup' = [setup EXCEPT !.key[service] = text, !.valid[service] = ValidNull]
    /\ UNCHANGED <<input, output, pageVars>>

\* handleTestIntervals / handleTestGoogleAI up to their await
handleTest(service) ==
    /\ setup.mounted /\ ~setup.isTesting[service]
    /\ Trim(setup.key[service]) # ""
    /\ setup' = [setup EXCEPT !.isTesting[service] = TRUE,
                              !.valid[service] = ValidNull,
                              !.inFlight[service] = setup.key[service]]
    /\ UNCHANGED <<input, output, pageVars>>

\* the rest of handleTestIntervals / handleTestGoogleAI once the validation
\* of the captured key answered `success`
TestSettled(service, success) ==
    /\ setup.inFlight[service] # Null
    /\ setup' = [setup EXCEPT
                   !.valid[service] = IF setup.mounted
                                      THEN (IF success THEN ValidTrue ELSE ValidFalse) ELSE @,
                   !.isTesting[service] = FALSE,
                   !.inFlight[service] = Null,
                   !.localStorage[service] =
                       IF success THEN setup.inFlight[service] ELSE @,
                   !.validated[service] =
                       IF success THEN @ \cup {setup.inFlight[service]} ELSE @]
    /\ UNCHANGED <<input, output, pageVars>>

handleTestIntervals == handleTest("intervals")
handleTestGoogleAI == handleTest("googleai")
IntervalsTestSettled(probe) ==
    /\ setup.inFlight["intervals"] # Null
    /\ TestSettled("intervals",
                   validateIntervalsICUAPIKey(setup.inFlight["intervals"], probe).success)
GoogleAITestSettled(isValid) == TestSettled("googleai", isValid)

\* Save & Continue, enabled by allValid: the page is left
handleSaveAndContinue ==
    /\ setup.mounted
    /\ \A service \in Services : setup.valid[service] = ValidTrue
    /\ setup' = [setup EXCEPT !.mounted = FALSE]
    /\ UNCHANGED <<input, output, pageVars>>

NextSetup ==
    \/ \E service \in Services, text \in KeyTexts : KeyTyped(service, text)
    \/ handleTestIntervals
    \/ handleTestGoogleAI
    \/ \E probe \in ProbeOutcomes : IntervalsTestSettled(probe)
    \/ \E isValid \in BOOLEAN : GoogleAITestSettled(isValid)
    \/ handleSaveAndContinue

SpecSetup == InitSetup /\ [][NextSetup]_vars

\* ------------------------------------------------ claims about the upload
TraceIdx == 1..Len(trace)
AttemptAt(j, k) == trace[j].e = "attempt" /\ trace[j].i = k
RequestAt(j, k) == trace[j].e = "request" /\ trace[j].i = k
OutcomeAt(j, k) == trace[j].e = "outcome" /\ trace[j].i = k
ProgressAt(j, k) == trace[j].e = "progress" /\ trace[j].current = k
DelayAt(j, k) == trace[j].e = "delay" /\ trace[j].i = k
BatchRunning == up.pc \in {"fetch", "delay", "returned"}
Returned == up.pc = "returned"
\* N, the number of workouts of the plan handed to uploadWorkoutPlan
BatchSize == Len(batchPlan.workouts)
FailedAt(k) == \E j \in TraceIdx : OutcomeAt(j, k) /\ ~trace[j].success
FailedIndexes == {k \in 1..BatchSize : FailedAt(k)}
\* the m-th failed workout, in upload order
NthFailed(m) ==
    CHOOSE k \in FailedIndexes : Cardinality({h \in FailedIndexes : h < k}) = m - 1
MessageOf(k) ==
    LET j == CHOOSE j \in TraceIdx : OutcomeAt(j, k) IN trace[j].message

\* C1: requests are issued in the order of plan.workouts, a request is issued
\* only when every earlier request has settled, and the request for workout
\* k > 1 comes after the outcome of workout k-1 and after the delay that
\* follows that outcome.
C1_SequentialPacedRequests ==
    \A j \in TraceIdx :
        trace[j].e = "request" =>
            LET k == trace[j].i
            IN /\ trace[j].body.external_id = batchPlan.workouts[k].id
               /\ \A h \in 1..(j - 1) :
                     trace[h].e = "request" =>
                         /\ trace[h].i < k
                         /\ \E m \in (h + 1)..(j - 1) : OutcomeAt(m, trace[h].i)
               /\ k > 1 => \E a \in 1..(j - 1) :
                              /\ OutcomeAt(a, k - 1)
                              /\ \E b \in (a + 1)..(j - 1) : DelayAt(b, k - 1)

\* the second request of a batch is in flight
C1_Witness ==
    /\ up.pc = "fetch" /\ up.i = 2
    /\ \E j \in TraceIdx : RequestAt(j, 2)

\* C2: no workout is attempted twice, and when uploadWorkoutPlan returns
\* every workout of the plan has been attempted exactly once, whether the
\* earlier attempts succeeded or failed.
C2_EveryWorkoutAttemptedOnce ==
    BatchRunning =>
        /\ \A j \in TraceIdx : trace[j].e = "attempt" => trace[j].i \in 1..BatchSize
        /\ \A k \in 1..BatchSize :
              LET attempts == Cardinality({j \in TraceIdx : AttemptAt(j, k)})
              IN /\ attempts <= 1
                 /\ Returned => attempts = 1

\* a batch of two returned although its first upload failed
C2_Witness ==
    /\ Returned /\ BatchSize = 2
    /\ FailedAt(1)
    /\ \E j \in TraceIdx : AttemptAt(j, 2)

\* C3: when uploadWorkoutPlan returns after K of N uploads failed,
\* succeeded = N-K, failed = K, the result is a failure iff K > 0, and the
\* errors are K strings "<name> (<date>): <message>", one per failed workout
\* in upload order.
C3_CountsAndErrorLines ==
    Returned =>
        LET K == Cardinality(FailedIndexes)
        IN /\ up.succeeded = BatchSize - K
           /\ up.failed = K
           /\ ~UploadResult(up).success <=> K > 0
           /\ Len(up.errors) = K
           /\ \A m \in 1..K :
                 LET workout == batchPlan.workouts[NthFailed(m)]
                 IN up.errors[m] = Str(workout.name) \o " (" \o Str(workout.date)
                                   \o "): " \o MessageOf(NthFailed(m))

\* a batch of two returned after both uploads failed
C3_Witness ==
    /\ Returned /\ BatchSize = 2
    /\ FailedIndexes = {1, 2}
    /\ Len(up.errors) = 2

\* C4: each outcome is followed at once by one progress call (i, N); the
\* calls come for i = 1, 2, ... in increasing order, N of them when the batch
\* returns; at each call i = succeeded + failed; and the call for attempt i
\* precedes the request for attempt i+1.
C4_ProgressAfterEveryAttempt ==
    BatchRunning =>
        /\ \A j \in TraceIdx :
              trace[j].e = "outcome" =>
                  j < Len(trace) /\ ProgressAt(j + 1, trace[j].i)
        /\ \A j \in TraceIdx :
              trace[j].e = "progress" =>
                  /\ trace[j].total = BatchSize
                  /\ trace[j].done = trace[j].current
                  /\ j > 1 /\ OutcomeAt(j - 1, trace[j].current)
                  /\ {trace[h].current : h \in {g \in 1..(j - 1) : trace[g].e = "progress"}}
                        = 1..(trace[j].current - 1)
                  /\ \A h \in 1..(j - 1) : ~ProgressAt(h, trace[j].current)
        /\ Returned =>
              \A k \in 1..BatchSize : \E j \in TraceIdx : ProgressAt(j, k)
        /\ \A j \in TraceIdx :
              (trace[j].e = "request" /\ trace[j].i > 1) =>
                  \E h \in 1..(j - 1) : ProgressAt(h, trace[j].i - 1)

\* a batch of two returned after its second upload failed: two progress calls
C4_Witness ==
    /\ Returned /\ BatchSize = 2
    /\ FailedIndexes = {2}
    /\ Cardinality({j \in TraceIdx : trace[j].e = "progress"}) = 2

\* C5: no fault escapes handleUpload, and the page is never left showing the
\* uploading state with no batch running to end it.
C5_UploadNeverStuck ==
    /\ ~uncaught
    /\ isUploading => BatchRunning

\* C6: a request is sent to the remote API only for a plan that passes
\* validateTrainingPlan.
C6_OnlyValidatedPlansUploaded ==
    (\E j \in TraceIdx : trace[j].e = "request") =>
        validateTrainingPlan(batchPlan).valid

\* the TrainingPlan invariant: end date after start date, one workout or more
TrainingPlanInvariant(p) ==
    /\ Len(p.workouts) >= 1
    /\ ParseDay(p.startDate) # NaN /\ ParseDay(p.endDate) # NaN
    /\ ParseDay(p.endDate) > ParseDay(p.startDate)

\* C7: a step that stays on the preview never turns a plan that satisfies the
\* TrainingPlan invariant into one that does not.
C7_EditsPreserveInvariant ==
    [][(page = "preview" /\ page' = "preview" /\ TrainingPlanInvariant(plan))
          => TrainingPlanInvariant(plan')]_vars

\* ------------------------------------------------------------ claim C23
\* a step of handleStartDateChange that changed the start date
StartDateChanged ==
    /\ page = "preview" /\ page' = "preview"
    /\ plan'.startDate # plan.startDate

\* the workout with its date moved by the day offset of the two start dates
ShiftedBy(workout, oldStart, newStart) ==
    [workout EXCEPT !.date = DayStr(ParseDay(@) + ParseDay(newStart)
                                                - ParseDay(oldStart))]

\* C23: changing the start date in the preview shifts every workout's date
\* by the same number of days, new start minus old start, and leaves every
\* other workout field, the order of the workouts and their number
\* unchanged.
C23_StartDateShiftsEveryWorkout ==
    [][StartDateChanged
       => /\ Len(plan'.workouts) = Len(plan.workouts)
          /\ \A k \in 1..Len(plan.workouts) :
                plan'.workouts[k]
                = ShiftedBy(plan.workouts[k], plan.startDate, plan'.startDate)]_vars

\* ------------------------------------------------------------ claim C24
\* C24: the description in every request body sent from the preview page
\* equals formatWorkoutForIntervalsICU(workout, paceMapping), computed from
\* the workout as edited and the page's pace mapping, for workouts with and
\* without an intervals list.
C24_SentDescriptionIsFormatted ==
    \A j \in TraceIdx :
        trace[j].e = "request"
        => trace[j].body.description
           = formatWorkoutForIntervalsICU(batchPlan.workouts[trace[j].i],
                                          paceMapping).text

\* ------------------------------------------------------------ claim C25
\* the workouts of the running batch that the remote side accepted in the
\* previous batch of the plan
AcceptedBefore == {k \in 1..BatchSize : batchPlan.workouts[k].id \in lastAccepted}

\* the request sent for workout k of the running batch carries its identifier
RequestSentFor(k) ==
    \E j \in TraceIdx :
        RequestAt(j, k) /\ trace[j].body.external_id = batchPlan.workouts[k].id

BatchStarts == up'.pc # "idle" /\ (up.pc = "idle" \/ Len(trace') < Len(trace))

\* C26: at most one upload batch is in flight at any time, and the plan and
\* the pace mapping of a running batch cannot change: while a batch runs
\* isUploading is true, so neither the Upload control nor the editor is
\* rendered, and a batch starts only when no batch runs; after a first
\* batch that is only once it has returned with a failure.
C26_OneBatchAtATime ==
    /\ [](BatchRunning => (isUploading /\ page = "preview" /\ batchPlan = plan))
    /\ [][/\ BatchStarts => (~BatchRunning /\ ~isUploading)
          /\ (BatchRunning /\ page' = "preview")
             => (plan' = plan /\ paceMapping' = paceMapping)
          /\ (BatchRunning /\ ~BatchRunning' /\ page' = "preview")
             => (up.pc = "returned" /\ ~UploadResult(up).success)]_vars

\* a second batch is in flight: the first one has returned with a failure
\* after the remote side accepted one of its workouts
C26_Witness ==
    /\ up.pc = "fetch" /\ isUploading
    /\ lastAccepted # {}

\* ------------------------------------------------------------ claim C27
\* C27: on the preview page, after any sequence of edits, plan.weeks is the
\* week count of the plan's current start and end date,
\* ceil(ceil(|endDate - startDate| in days) / 7).
C27_WeeksDerivedFromDates ==
    page = "preview" => plan.weeks = calculateWeeks(plan.startDate, plan.endDate)

\* ------------------------------------------------------------ claim C28
\* C28: whenever the editor is shown, the pace mapping that handleUpload
\* would pass to the formatter is the mapping that PlanPreview holds and the
\* pace-configuration dialog shows.
C28_UploadUsesShownMapping ==
    EditorShown => paceMapping = previewPaceMapping

\* ------------------------------------------------------------ claim C29
\* the text of a field whose status is valid passed validation or was loaded
ValidFieldIsValidated ==
    \A service \in Services :
        (setup.mounted /\ setup.valid[service] = ValidTrue) =>
            setup.key[service] \in
                setup.validated[service] \cup ({setup.loaded[service]} \ {Null, ""})

\* a stored key was stored before the page mounted or passed its own validation
StoredKeyIsValidated ==
    \A service \in Services :
        setup.localStorage[service] \in
            setup.validated[service] \cup {setup.loaded[service]}

\* C29: on the setup page, whenever a key's status is valid the text in its
\* field is a key that passed validation or was loaded from storage, and a
\* key is written to storage only after its own validation succeeded
C29_ValidStatusMeansValidatedKey ==
    ValidFieldIsValidated /\ StoredKeyIsValidated

\* ------------------------------------------------------------ claim C30
ExtractDone == input.fn = "extractPlanFromPDF" /\ output # <<>>

\* C30: extractPlanFromPDF leaves the ambient GOOGLE_GENERATIVE_AI_API_KEY
\* setting as it was before the call on every exit path: after a successful
\* extraction, after a provider error and after an answer that is not JSON
C30_AmbientKeyRestored ==
    ExtractDone => output[1].envKey = input.arg.originalKey

\* the exit paths on which the setting is what it was before the call
RestoredAfterAnswer ==
    (ExtractDone /\ input.arg.outcome \in {"not JSON", "no workouts", "plan"}
                 /\ input.arg.originalKey # "") =>
        output[1].envKey = input.arg.originalKey

====
